---- MODULE Spec2Model ----
(***************************************************************************)
(* Strategy arena of the Polymarket whale trader: the paper-trade ledger   *)
(* (src/src/paper-trader.js), the risk manager (src/src/ensemble.js,       *)
(* lines 231-423), the ensemble allocator (src/src/ensemble.js, lines      *)
(* 1-229), the champion/challenger arena (src/src/arena.js) and the        *)
(* compete command cron runs (src/src/index.js).                           *)
(*                                                                         *)
(* Units.  Money is in cents, prices and confidences are in percent, time  *)
(* is in minutes.  JavaScript doubles are modelled as fixed-point numbers  *)
(* of that precision: a quotient is truncated to the unit (\div).          *)
(* A JavaScript null is the empty tuple Null, a value v is <<v>>.          *)
(* A strategy id is the tuple of its colon-separated segments:             *)
(* "baseline" is <<"baseline">>, "creative:whale_copy" is                  *)
(* <<"creative", "whale_copy">>.                                           *)
(***************************************************************************)
EXTENDS Integers, Sequences, FiniteSets, TLC

VARIABLES
    trades,            \* PaperTrader.data.trades
    champion,          \* StrategyArena.state.champion
    challengerWins,    \* StrategyArena.state.challengerWins (a JS object: partial map)
    promotionHistory,  \* StrategyArena.state.promotionHistory
    now,               \* Date.now(), in minutes
    useEnsemble,       \* config.USE_ENSEMBLE !== false
    pc,                \* position of runCompetition: "idle", "trade", "compare"
    idx,               \* index of the next entry of `results` in the trade loop
    marketCache,       \* the cycle's marketCache: slug -> upPrice
    cycles,            \* number of cycles started
    lastRisk,          \* ghost: the last riskValidation, with what it was decided on
    lastCompare,       \* ghost: what the cycle's compareAndPromote saw and decided
    streak,            \* ghost: consecutive compareAndPromote cycles won, per strategy
    seeded,            \* ghost: number of trades in the ledger file the process loaded
    orders,            \* ghost: the calls of realTrader.placeOrder, with their outcome
    lastExec,          \* ghost: the branch the last trade-loop iteration took
    threw,             \* the strategies whose analysis throws in the running cycle
    stats,             \* EnsembleAllocator: the result of getStrategyStats
    allocations,       \* EnsembleAllocator: the result of calculateAllocations
    ledgerFile,        \* data/paper-trades.json
    arenaFile,         \* data/arena-state.json
    ensembleFile,      \* data/ensemble-state.json
    procs,             \* the compete processes cron has started
    targetMarkets,     \* instance.targetMarkets, per strategy of the registry
    results,           \* the `results` object of the running cycle
    order              \* Object.entries(results): the order of the trade loop

\* The ghosts of the trade loop's execution branch.
execVars == <<orders, lastExec, threw>>

\* The allocator's inputs and result, followed by SpecAlloc only.
allocVars == <<stats, allocations>>

\* The files and the processes sharing them, followed by SpecCron only: the
\* other specifications follow one process whose saves complete, so that its
\* memory image (trades, champion, ...) is also what the files hold.
cronVars == <<ledgerFile, arenaFile, ensembleFile, procs>>

\* The routing of the strategies to markets, followed by SpecRoute only: the
\* other specifications take the best signal of a strategy as an input.
routeVars == <<targetMarkets, results, order>>

vars == <<trades, champion, challengerWins, promotionHistory, now, useEnsemble,
          pc, idx, marketCache, cycles, lastRisk, lastCompare, streak, seeded,
          orders, lastExec, threw, stats, allocations, ledgerFile, arenaFile,
          ensembleFile, procs, targetMarkets, results, order>>

----------------------------------------------------------------------------
(* Program constants *)

WINS_FOR_PROMOTION == 3
COMPARISON_WINDOW_HOURS == 48
MIN_EDGE_FOR_WIN == 100
TAKE_PROFIT_PCT == 30
BASE_BALANCE == 50000
MAX_EXPOSURE_PER_MARKET == 20
COOLDOWN_MINUTES == 10
POSITION_SIZE_PCT == 5
NO_STACKING == TRUE
MIN_TRADE_SIZE == 500
MAX_TRADE_SIZE == 5000
VALIDATOR_MIN_PRICE == 5
VALIDATOR_MAX_PRICE == 95
VALIDATOR_MIN_EDGE == 3
LOOKBACK_HOURS == 168
MIN_TRADES == 3
MIN_WIN_RATE == 30
MIN_PNL == -1000
ONE_DOLLAR == 100
MIN_ALLOC == 1000
MAX_ALLOC == 5000
MAX_ITERATIONS == 10
REBALANCE_TOLERANCE == 100
SMALL_BASE_WEIGHT == 100

Null == <<>>
None == <<"none">>

\* The registry built by loadStrategies, in insertion order.
Strategies == << <<"baseline">>, <<"momentum_pure">>, <<"whale_copy">> >>
StrategySet == {Strategies[i] : i \in 1..Len(Strategies)}

\* data/active-markets.json and the default market of the compete command.
DefaultMarket == "btc"
Markets == {"btc", "eth"}
Actions == {"BUY_UP", "BUY_DOWN"}

\* Inputs of a cycle: the up price a market is fetched at, the |score| and the
\* confidence of a strategy's best signal, and the levels of a split ensemble
\* allocation.
UpPrices == {50, 75}
Scores == {20, 80}
Confidences == {100}
AllocLevels == {10, 50}

----------------------------------------------------------------------------
(* Arithmetic helpers *)

Max(a, b) == IF a >= b THEN a ELSE b
Min(a, b) == IF a <= b THEN a ELSE b

\* Math.round(n / d) for n >= 0, d > 0
RoundDiv(n, d) == (2 * n + d) \div (2 * d)

RECURSIVE SumSizes(_)
SumSizes(ts) == IF ts = <<>> THEN 0 ELSE Head(ts).size + SumSizes(Tail(ts))

\* trade.pnl || 0
PnlOrZero(t) == IF t.pnl = Null THEN 0 ELSE t.pnl[1]

----------------------------------------------------------------------------
(* Ledger: src/src/paper-trader.js *)

\* A faulty key: the part before the first colon instead of the part after it.
stratKeyFirstPart(s) == IF Len(s) >= 2 /\ s[1] = "creative" THEN <<s[1]>> ELSE s

\* trade.strategy.startsWith("creative:") ? trade.strategy.split(":")[1] : trade.strategy
stratKey(s) == IF Len(s) >= 2 /\ s[1] = "creative" THEN <<s[2]>> ELSE s

\* Date.now() at the model's clock 0, in minutes: the clock of the model
\* counts from there, so that a reading has the digits of a present-day one.
CLOCK_EPOCH == 29000000

\* Number.prototype.toString(36), for n >= 0: the digits, most significant
\* first, each as its value 0..35 (the characters 0-9a-z, in that order).
RECURSIVE toString36(_)
toString36(n) == IF n < 36 THEN <<n>> ELSE Append(toString36(n \div 36), n % 36)

\* The trade object logTrade builds.
NewTrade(strategy, isReal, market, action, entryPrice, size, clock) ==
    [ id         |-> toString36(CLOCK_EPOCH + clock),
      strategy   |-> strategy,
      isReal     |-> isReal,
      market     |-> market,
      action     |-> action,
      entryPrice |-> entryPrice,
      size       |-> size,
      timestamp  |-> clock,
      status     |-> "open",
      exitPrice  |-> Null,
      pnl        |-> Null,
      outcome    |-> Null,
      closeReason |-> Null,
      currentMtmPnL |-> Null ]

\* logTrade: this.data.trades.push(trade)
logTrade(ts, strategy, isReal, market, action, entryPrice, size, clock) ==
    Append(ts, NewTrade(strategy, isReal, market, action, entryPrice, size, clock))

\* getOpenTrades
getOpenTrades(ts) == SelectSeq(ts, LAMBDA t : t.status = "open")

\* One trade of closeMarket's loop.
closeTradeOnOutcome(t, outcome) ==
    LET isWin == (t.action = "BUY_UP" /\ outcome = "UP")
                 \/ (t.action = "BUY_DOWN" /\ outcome = "DOWN")
        exitPrice == IF isWin THEN 100 ELSE 0
        payout == (t.size * exitPrice) \div t.entryPrice
    IN [t EXCEPT !.status = "closed",
                 !.exitPrice = <<exitPrice>>,
                 !.pnl = <<payout - t.size>>,
                 !.outcome = <<outcome>>]

\* A faulty closeMarket: the trades of the market are not filtered by status.
closeMarketAnyStatus(ts, market, outcome) ==
    [i \in 1..Len(ts) |->
        IF ts[i].market = market THEN closeTradeOnOutcome(ts[i], outcome) ELSE ts[i]]

\* closeMarket(market, outcome): every open trade of the market is closed in place.
closeMarket(ts, market, outcome) ==
    [i \in 1..Len(ts) |->
        IF ts[i].market = market /\ ts[i].status = "open"
        THEN closeTradeOnOutcome(ts[i], outcome)
        ELSE ts[i]]

\* Price of the side a trade bought, from a cycle's price map (slug -> upPrice).
sidePrice(action, upPrice) == IF action = "BUY_UP" THEN upPrice ELSE 100 - upPrice

\* The take-profit test of checkTakeProfits: profitPct >= takeProfitPct.
takeProfitHit(t, currentPrice) ==
    (currentPrice - t.entryPrice) * 100 >= TAKE_PROFIT_PCT * t.entryPrice

\* A faulty sweep: only the BUY_UP branch of the profit computation closes.
sweepTradeUpOnly(t, prices) ==
    IF t.status # "open" \/ t.market \notin DOMAIN prices \/ t.action # "BUY_UP"
    THEN t
    ELSE LET currentPrice == sidePrice(t.action, prices[t.market])
         IN IF currentPrice = 0 \/ ~takeProfitHit(t, currentPrice)
            THEN t
            ELSE [t EXCEPT !.status = "closed",
                           !.exitPrice = <<currentPrice>>,
                           !.pnl = <<(t.size * currentPrice) \div t.entryPrice - t.size>>,
                           !.closeReason = <<"TAKE_PROFIT">>]

\* One trade of checkTakeProfits' loop; prices is the cycle's price map.
sweepTrade(t, prices) ==
    IF t.status # "open" \/ t.market \notin DOMAIN prices
    THEN t
    ELSE LET currentPrice == sidePrice(t.action, prices[t.market])
         IN IF currentPrice = 0 \/ ~takeProfitHit(t, currentPrice)
            THEN t
            ELSE [t EXCEPT !.status = "closed",
                           !.exitPrice = <<currentPrice>>,
                           !.pnl = <<(t.size * currentPrice) \div t.entryPrice - t.size>>,
                           !.closeReason = <<"TAKE_PROFIT">>]

\* checkTakeProfits(marketPrices)
checkTakeProfits(ts, prices) == [i \in 1..Len(ts) |-> sweepTrade(ts[i], prices)]

\* calculateMtmPnL(trade, currentPrices); currentPrices is Null or <<upPrice>>.
calculateMtmPnL(t, currentPrices) ==
    IF t.status = "closed"
    THEN PnlOrZero(t)
    ELSE LET given == IF currentPrices = Null THEN 0
                      ELSE sidePrice(t.action, currentPrices[1])
             currentPrice == IF given = 0 THEN t.entryPrice ELSE given
         IN (t.size * currentPrice) \div t.entryPrice - t.size

\* updateMarkToMarket(market, currentPrices)
updateMarkToMarket(ts, market, currentPrices) ==
    [i \in 1..Len(ts) |->
        IF ts[i].market = market /\ ts[i].status = "open"
        THEN [ts[i] EXCEPT !.currentMtmPnL = <<calculateMtmPnL(ts[i], currentPrices)>>]
        ELSE ts[i]]

\* A faulty window: a trade with timestamp = windowStart is left out.
windowTradesAfter(ts, hours, clock) ==
    SelectSeq(ts, LAMBDA t : t.timestamp > clock - hours * 60)

\* The trades of getPerformanceWindow's window: t.timestamp >= windowStart.
windowTrades(ts, hours, clock) ==
    SelectSeq(ts, LAMBDA t : t.timestamp >= clock - hours * 60)

\* Keys of the performances object, in insertion order.
RECURSIVE perfKeys(_, _)
perfKeys(ts, seen) ==
    IF ts = <<>> THEN <<>>
    ELSE LET k == stratKey(Head(ts).strategy)
         IN IF k \in seen THEN perfKeys(Tail(ts), seen)
            ELSE <<k>> \o perfKeys(Tail(ts), seen \cup {k})

\* The accumulation loop of getPerformanceWindow, for one key.
RECURSIVE perfAcc(_, _, _, _)
perfAcc(ts, k, currentPrices, acc) ==
    IF ts = <<>> THEN acc
    ELSE LET t == Head(ts)
         IN IF stratKey(t.strategy) # k
            THEN perfAcc(Tail(ts), k, currentPrices, acc)
            ELSE IF t.status = "closed"
            THEN perfAcc(Tail(ts), k, currentPrices,
                    [acc EXCEPT !.trades = @ + 1,
                                !.closedPnL = @ + PnlOrZero(t),
                                !.pnl = @ + PnlOrZero(t),
                                !.wins = @ + (IF t.pnl # Null /\ t.pnl[1] > 0 THEN 1 ELSE 0)])
            ELSE perfAcc(Tail(ts), k, currentPrices,
                    [acc EXCEPT !.trades = @ + 1,
                                !.openPnL = @ + calculateMtmPnL(t, currentPrices),
                                !.pnl = @ + calculateMtmPnL(t, currentPrices)])

EmptyPerf == [trades |-> 0, wins |-> 0, pnl |-> 0, openPnL |-> 0, closedPnL |-> 0]

\* getPerformanceWindow(hours, currentPrices): the entries of the result, in
\* insertion order, as a sequence of <<key, stats>>.
getPerformanceWindow(ts, hours, currentPrices, clock) ==
    LET w == windowTrades(ts, hours, clock)
        keys == perfKeys(w, {})
    IN [i \in 1..Len(keys) |-> <<keys[i], perfAcc(w, keys[i], currentPrices, EmptyPerf)>>]

----------------------------------------------------------------------------
(* Risk manager: src/src/ensemble.js, lines 231-423 *)

\* getPortfolioValue
getPortfolioValue(ts) == BASE_BALANCE + SumSizes(getOpenTrades(ts))

\* getMarketExposure(marketSlug)
getMarketExposure(ts, marketSlug) ==
    SumSizes(SelectSeq(getOpenTrades(ts), LAMBDA t : t.market = marketSlug))

\* A faulty getLastTradeTime: the sort is ascending, the oldest trade comes first.
getOldestTradeTime(ts, strategyName) ==
    LET mine == SelectSeq(ts, LAMBDA t : t.strategy = strategyName)
        stamps == {mine[i].timestamp : i \in 1..Len(mine)}
    IN IF mine = <<>> THEN Null
       ELSE <<CHOOSE m \in stamps : \A x \in stamps : x >= m>>

\* getLastTradeTime(strategyName): Null, or the largest timestamp of the
\* strategy's trades (the first of the copy sorted by timestamp, descending).
getLastTradeTime(ts, strategyName) ==
    LET mine == SelectSeq(ts, LAMBDA t : t.strategy = strategyName)
        stamps == {mine[i].timestamp : i \in 1..Len(mine)}
    IN IF mine = <<>> THEN Null
       ELSE <<CHOOSE m \in stamps : \A x \in stamps : x <= m>>

\* A faulty hasOpenPosition: the strategy is looked up under its prefixed id.
hasOpenPositionPrefixed(ts, strategyName, marketSlug, action) ==
    \E i \in 1..Len(ts) :
        /\ ts[i].status = "open"
        /\ ts[i].strategy = <<"creative">> \o strategyName
        /\ ts[i].market = marketSlug
        /\ ts[i].action = action

\* hasOpenPosition(strategyName, marketSlug, action)
hasOpenPosition(ts, strategyName, marketSlug, action) ==
    \E i \in 1..Len(ts) :
        /\ ts[i].status = "open"
        /\ ts[i].strategy = strategyName
        /\ ts[i].market = marketSlug
        /\ ts[i].action = action

\* calculatePositionSize(confidence): portfolio * pct * (0.5 + confidence * 0.5),
\* clamped to [MIN_TRADE_SIZE, MAX_TRADE_SIZE], rounded to the cent.
\* With confidence in percent the product is num / 20000.
calculatePositionSize(ts, confidence) ==
    LET num == getPortfolioValue(ts) * POSITION_SIZE_PCT * (100 + confidence)
        lo  == Max(MIN_TRADE_SIZE * 20000, num)
        hi  == Min(MAX_TRADE_SIZE * 20000, lo)
    IN RoundDiv(hi, 20000)

\* The facts validate decides on.
exposureAtCap(ts, marketSlug) ==
    getMarketExposure(ts, marketSlug) * 100 >= MAX_EXPOSURE_PER_MARKET * getPortfolioValue(ts)

cooldownActive(ts, strategy, clock) ==
    LET lastTradeTime == getLastTradeTime(ts, strategy)
    IN /\ lastTradeTime # Null
       /\ lastTradeTime[1] # 0
       /\ clock - lastTradeTime[1] < COOLDOWN_MINUTES

\* A faulty maxAllowed: the current exposure is not subtracted.
maxAllowedGross(ts, marketSlug) == (MAX_EXPOSURE_PER_MARKET * getPortfolioValue(ts)) \div 100

\* maxAllowed = MAX_EXPOSURE_PER_MARKET * portfolio - currentExposure
maxAllowed(ts, marketSlug) ==
    (MAX_EXPOSURE_PER_MARKET * getPortfolioValue(ts)) \div 100 - getMarketExposure(ts, marketSlug)

Reject(rule) == [valid |-> FALSE, rule |-> rule, size |-> 0, adjusted |-> FALSE]
Accept(size, adjusted) == [valid |-> TRUE, rule |-> "", size |-> size, adjusted |-> adjusted]

\* The sizing step of validate: the position size and the exposure re-check.
sizeWithinExposure(ts, marketSlug, confidence) ==
    LET size == calculatePositionSize(ts, confidence)
        currentExposure == getMarketExposure(ts, marketSlug)
        portfolio == getPortfolioValue(ts)
    IN IF (currentExposure + size) * 100 > MAX_EXPOSURE_PER_MARKET * portfolio
       THEN IF maxAllowed(ts, marketSlug) < MIN_TRADE_SIZE
            THEN Reject("MAX_EXPOSURE")
            ELSE Accept(Max(MIN_TRADE_SIZE, maxAllowed(ts, marketSlug)), TRUE)
       ELSE Accept(size, FALSE)

\* A faulty validate: the cooldown is checked before the exposure.
validateCooldownFirst(ts, strategy, marketSlug, action, confidence, clock) ==
    IF cooldownActive(ts, strategy, clock) THEN Reject("COOLDOWN")
    ELSE IF exposureAtCap(ts, marketSlug) THEN Reject("MAX_EXPOSURE")
    ELSE IF NO_STACKING /\ hasOpenPosition(ts, strategy, marketSlug, action)
         THEN Reject("NO_STACKING")
    ELSE sizeWithinExposure(ts, marketSlug, confidence)

\* validate({strategy, marketSlug, action, confidence})
validate(ts, strategy, marketSlug, action, confidence, clock) ==
    IF exposureAtCap(ts, marketSlug) THEN Reject("MAX_EXPOSURE")
    ELSE IF cooldownActive(ts, strategy, clock) THEN Reject("COOLDOWN")
    ELSE IF NO_STACKING /\ hasOpenPosition(ts, strategy, marketSlug, action)
         THEN Reject("NO_STACKING")
    ELSE sizeWithinExposure(ts, marketSlug, confidence)

----------------------------------------------------------------------------
(* Trade validator: src/src/trade-validator.js, lines 25-73 *)

\* validate(trade, market), for market data without expiresAt and spread.
tradeValidatorValid(score, price) ==
    /\ price > VALIDATOR_MIN_PRICE
    /\ price < VALIDATOR_MAX_PRICE
    /\ score - price >= VALIDATOR_MIN_EDGE

----------------------------------------------------------------------------
(* Ensemble allocator: src/src/ensemble.js, lines 1-229 *)

\* The trades getStrategyStats counts for a strategy: inside the lookback
\* window, under exactly that trade.strategy string.
statTrades(ts, name, clock) ==
    SelectSeq(ts, LAMBDA t : t.timestamp >= clock - LOOKBACK_HOURS * 60 /\ t.strategy = name)

closedOf(ts, name, clock) ==
    SelectSeq(statTrades(ts, name, clock), LAMBDA t : t.status = "closed")

RECURSIVE SumPnl(_)
SumPnl(ts) == IF ts = <<>> THEN 0 ELSE PnlOrZero(Head(ts)) + SumPnl(Tail(ts))

winsOf(ts, name, clock) ==
    Len(SelectSeq(closedOf(ts, name, clock), LAMBDA t : PnlOrZero(t) > 0))

\* The eligibility filter of calculateAllocations.
isEligible(ts, name, clock) ==
    LET closed == closedOf(ts, name, clock)
    IN /\ statTrades(ts, name, clock) # <<>>
       /\ name \notin {<<"contrarian">>, <<"mean_reversion">>}
       /\ Len(closed) >= MIN_TRADES
       /\ winsOf(ts, name, clock) * 100 >= MIN_WIN_RATE * Len(closed)
       /\ SumPnl(closed) >= MIN_PNL

eligibleNames(ts, clock) ==
    {n \in {ts[i].strategy : i \in 1..Len(ts)} : isEligible(ts, n, clock)}

\* baseWeight > 0: sharpe > 0 needs mean > 0, and otherwise totalPnl > 0 gives 0.1.
hasBaseWeight(ts, name, clock) == SumPnl(closedOf(ts, name, clock)) > 0

\* The weights (in percent) calculateAllocations can return for a strategy.
\* Exact when at most one eligible strategy has a positive base weight; with
\* several the split depends on the Sharpe ratios and every level is possible.
allocationLevels(ts, name, clock) ==
    LET eligible == eligibleNames(ts, clock)
        weighted == {n \in eligible : hasBaseWeight(ts, n, clock)}
    IN IF eligible = {} THEN (IF name = <<"momentum_pure">> THEN {100} ELSE {0})
       ELSE IF name \notin weighted THEN {0}
       ELSE IF Cardinality(weighted) = 1 THEN {100}
       ELSE AllocLevels

\* getAllocation(strategyName, baseSize), for a weight calculateAllocations returned.
getAllocation(weight, baseSize) ==
    [canTrade |-> weight > 0, size |-> (baseSize * weight) \div 100, allocation |-> weight]

\* calculateAllocations on the statistics getStrategyStats returned.  A weight
\* is in units of 1/10000 (ONE_WEIGHT is 1.0), a Sharpe ratio and a base weight
\* in units of 1/1000 (SMALL_BASE_WEIGHT is 0.1), totalPnl in cents.
ONE_WEIGHT == 10000

\* The statistics of one strategy that decide its allocation.
Stat(closedTrades, wins, totalPnl, sharpe) ==
    [closedTrades |-> closedTrades, wins |-> wins, totalPnl |-> totalPnl, sharpe |-> sharpe]

\* The eligibility filter, on the statistics: s.winRate is wins / closedTrades.
statEligible(name, st) ==
    /\ name \notin {<<"contrarian">>, <<"mean_reversion">>}
    /\ st.closedTrades >= MIN_TRADES
    /\ st.wins * 100 >= MIN_WIN_RATE * st.closedTrades
    /\ st.totalPnl >= MIN_PNL

\* s.sharpe > 0 ? s.sharpe : (s.totalPnl > 0 ? 0.1 : 0)
baseWeight(st) ==
    IF st.sharpe > 0 THEN st.sharpe
    ELSE IF st.totalPnl > 0 THEN SMALL_BASE_WEIGHT ELSE 0

RECURSIVE SumOver(_, _)
SumOver(f, names) ==
    IF names = {} THEN 0
    ELSE LET n == CHOOSE x \in names : TRUE IN f[n] + SumOver(f, names \ {n})

\* weights[name] /= totalWeight, when totalWeight > 0
normalize(weights, total) ==
    IF total > 0
    THEN [n \in DOMAIN weights |-> (weights[n] * ONE_WEIGHT) \div total]
    ELSE weights

\* The for loop of one round: the floor and the cap.
clampAll(adjusted) ==
    [n \in DOMAIN adjusted |->
        IF adjusted[n] > 0 /\ adjusted[n] < MIN_ALLOC THEN MIN_ALLOC
        ELSE IF adjusted[n] > MAX_ALLOC THEN MAX_ALLOC
        ELSE adjusted[n]]

\* The renormalisation of one round: total > 0 && Math.abs(total - 1) > 0.01
renormalize(clamped) ==
    LET total == SumOver(clamped, DOMAIN clamped)
    IN IF total > 0 /\ (total - ONE_WEIGHT > REBALANCE_TOLERANCE
                        \/ ONE_WEIGHT - total > REBALANCE_TOLERANCE)
       THEN [n \in DOMAIN clamped |-> (clamped[n] * ONE_WEIGHT) \div total]
       ELSE clamped

\* The while loop: rounds until one fires no clamp, MAX_ITERATIONS at most.
RECURSIVE rebalance(_, _)
rebalance(adjusted, iterations) ==
    IF iterations >= MAX_ITERATIONS THEN adjusted
    ELSE LET clamped == clampAll(adjusted)
         IN IF clamped = adjusted
            THEN renormalize(clamped)
            ELSE rebalance(renormalize(clamped), iterations + 1)

\* calculateAllocations(), for the statistics st (strategy -> Stat).
calculateAllocations(st) ==
    LET eligible == {n \in DOMAIN st : statEligible(n, st[n])}
        weights == [n \in eligible |-> baseWeight(st[n])]
    IN IF eligible = {}
       THEN [n \in {<<"momentum_pure">>} |-> ONE_WEIGHT]
       ELSE rebalance(normalize(weights, SumOver(weights, eligible)), 0)

----------------------------------------------------------------------------
(* Arena: src/src/arena.js *)

\* this.state.challengerWins[name] || 0
challengerWinsOf(cw, name) == IF name \in DOMAIN cw THEN cw[name] ELSE 0

\* The empty object {} .
EmptyWins == [k \in {} |-> 0]

\* Object.entries(performances).sort((a, b) => b[1].pnl - a[1].pnl): a stable sort.
RECURSIVE insertByPnl(_, _)
insertByPnl(e, sorted) ==
    IF sorted = <<>> THEN <<e>>
    ELSE IF Head(sorted)[2].pnl >= e[2].pnl
         THEN <<Head(sorted)>> \o insertByPnl(e, Tail(sorted))
         ELSE <<e>> \o sorted

RECURSIVE sortByPnl(_)
sortByPnl(entries) ==
    IF entries = <<>> THEN <<>>
    ELSE insertByPnl(entries[Len(entries)], sortByPnl(SubSeq(entries, 1, Len(entries) - 1)))

\* performances[this.state.champion]?.pnl || 0
championPnLOf(entries, champ) ==
    IF \E i \in 1..Len(entries) : entries[i][1] = champ
    THEN (LET i == CHOOSE j \in 1..Len(entries) : entries[j][1] = champ IN entries[i][2].pnl)
    ELSE 0

\* A faulty win test: the challenger need not be profitable.
isWinUnprofitable(name, pnl, champ, championPnL, bestChallengerPnL) ==
    /\ name # champ
    /\ pnl > bestChallengerPnL
    /\ pnl - championPnL >= MIN_EDGE_FOR_WIN

\* The win test of compareAndPromote's loop.
isWin(name, pnl, champ, championPnL, bestChallengerPnL) ==
    /\ name # champ
    /\ pnl > bestChallengerPnL
    /\ pnl > 0
    /\ pnl - championPnL >= MIN_EDGE_FOR_WIN

\* The loop over `sorted` that finds bestChallenger (None is null).
RECURSIVE scanChallengers(_, _, _, _, _)
scanChallengers(sorted, champ, championPnL, best, bestPnL) ==
    IF sorted = <<>> THEN best
    ELSE LET name == Head(sorted)[1]
             pnl == Head(sorted)[2].pnl
         IN IF isWin(name, pnl, champ, championPnL, bestPnL)
            THEN scanChallengers(Tail(sorted), champ, championPnL, name, pnl)
            ELSE scanChallengers(Tail(sorted), champ, championPnL, best, bestPnL)

bestChallengerOf(ts, champ, clock) ==
    LET performances == getPerformanceWindow(ts, COMPARISON_WINDOW_HOURS, Null, clock)
        championPnL == championPnLOf(performances, champ)
    IN scanChallengers(sortByPnl(performances), champ, championPnL, None, championPnL)

\* A faulty update: the other challengers keep their counters.
winsAfterWinNoReset(cw, winner) ==
    [k \in DOMAIN cw \cup {winner} |-> IF k = winner THEN challengerWinsOf(cw, winner) + 1 ELSE cw[k]]

\* challengerWins after the winner's increment and the reset of the others.
winsAfterWin(cw, winner) ==
    [k \in DOMAIN cw \cup {winner} |-> IF k = winner THEN challengerWinsOf(cw, winner) + 1 ELSE 0]

\* A faulty promotion test: one win too early.
reachesPromotionEarly(wins) == wins >= WINS_FOR_PROMOTION - 1

\* The promotion test.
reachesPromotion(wins) == wins >= WINS_FOR_PROMOTION

\* A faulty reset: a cycle without winner keeps the counters.
winsKeptAfterNoWin(cw) == cw

\* challengerWins after a cycle without winner: this.state.challengerWins = {}
winsAfterNoWin(cw) == EmptyWins

\* A faulty promote: the history entry is not pushed.
promoteWithoutHistory(champ, newChampion, history, clock) ==
    [champion |-> newChampion, challengerWins |-> EmptyWins, promotionHistory |-> history]

\* promote(newChampion): the arena state it leaves.
promote(champ, newChampion, history, clock) ==
    [champion |-> newChampion,
     challengerWins |-> EmptyWins,
     promotionHistory |-> Append(history,
         [timestamp |-> clock, oldChampion |-> champ, newChampion |-> newChampion])]

\* compareAndPromote after its loop: the arena state it leaves, with the
\* bestChallenger the loop found.
afterComparison(bestChallenger, champ, cw, history, clock) ==
    LET promoted == promote(champ, bestChallenger, history, clock)
    IN IF bestChallenger # None
       THEN IF reachesPromotion(winsAfterWin(cw, bestChallenger)[bestChallenger])
            THEN [champion |-> promoted.champion,
                  challengerWins |-> promoted.challengerWins,
                  promotionHistory |-> promoted.promotionHistory,
                  winner |-> bestChallenger]
            ELSE [champion |-> champ,
                  challengerWins |-> winsAfterWin(cw, bestChallenger),
                  promotionHistory |-> history,
                  winner |-> bestChallenger]
       ELSE [champion |-> champ,
             challengerWins |-> winsAfterNoWin(cw),
             promotionHistory |-> history,
             winner |-> None]

\* The arena state compareAndPromote leaves, with the winner it found.
compareAndPromote(ts, champ, cw, history, clock) ==
    afterComparison(bestChallengerOf(ts, champ, clock), champ, cw, history, clock)

----------------------------------------------------------------------------
(* State machine *)

NoRisk == [called |-> FALSE]
NoCompare == [done |-> FALSE]
NoExec == [called |-> FALSE]

\* The values the variables of the allocator and of the files keep where they
\* are not followed.
NoStats == <<>>
NoFile == <<>>
NoProcs == <<>>
NoTargets == <<>>
NoResults == <<>>
NoOrder == <<>>

\* Price maps of a cycle with every market fetched: the default market moves,
\* the other one stays at 50.
PriceMaps == {[m \in Markets |-> IF m = DefaultMarket THEN u ELSE 50] : u \in UpPrices}

\* result.confidence || 0.5
confidenceOrDefault(c) == IF c = 0 THEN 50 ELSE c

Init ==
    /\ trades = <<>>
    /\ champion = <<"baseline">>
    /\ challengerWins = EmptyWins
    /\ promotionHistory = <<>>
    /\ now = 1
    /\ useEnsemble \in BOOLEAN
    /\ pc = "idle"
    /\ idx = 1
    /\ marketCache = [m \in {DefaultMarket} |-> 50]
    /\ cycles = 0
    /\ lastRisk = NoRisk
    /\ lastCompare = NoCompare
    /\ streak = [s \in StrategySet |-> 0]
    /\ seeded = 0
    /\ orders = <<>>
    /\ lastExec = NoExec
    /\ threw = {}
    /\ stats = NoStats
    /\ allocations = NoStats
    /\ ledgerFile = NoFile
    /\ arenaFile = NoFile
    /\ ensembleFile = NoFile
    /\ procs = NoProcs
    /\ targetMarkets = NoTargets
    /\ results = NoResults
    /\ order = NoOrder

\* runCompetition up to the trade loop: the markets are fetched, the
\* take-profit sweep runs and the strategies analyse.  gaps: the times since
\* the previous operation, priceMaps: the price maps the cycle can fetch,
\* throwSets: the sets of strategies whose analysis can throw in a cycle.  The
\* first call of the baseline analysis (the shared signals) is outside any try:
\* when it throws, runCompetition rejects there and the cycle is over.  A throw
\* of another analysis is caught and leaves the strategy on HOLD.
StartCycleExec(gaps, priceMaps, maxCycles, throwSets) ==
    /\ pc = "idle"
    /\ cycles < maxCycles
    /\ \E gap \in gaps, prices \in priceMaps :
        /\ now' = now + gap
        /\ marketCache' = prices
        /\ trades' = checkTakeProfits(trades, prices)
    /\ \E thr \in throwSets :
        /\ threw' = thr
        /\ pc' = IF <<"baseline">> \in thr THEN "idle" ELSE "trade"
    /\ idx' = 1
    /\ cycles' = cycles + 1
    /\ lastRisk' = NoRisk
    /\ lastCompare' = NoCompare
    /\ lastExec' = NoExec
    /\ UNCHANGED <<champion, challengerWins, promotionHistory, useEnsemble, streak, seeded,
                   orders, allocVars, cronVars, routeVars>>

\* A cycle in which no analysis throws.
StartCycleWith(gaps, priceMaps, maxCycles) ==
    StartCycleExec(gaps, priceMaps, maxCycles, {{}})

\* A faulty routing: every accepted proposal trades real (canTradeReal = realTrader).
tradeRouteAllReal(ts, name, market, action, score, confidence, weight, champ, ensemble, prices, clock) ==
    LET price == sidePrice(action, prices[market])
        riskValidation == validate(ts, name, market, action, confidenceOrDefault(confidence), clock)
        tradeSize == riskValidation.size
    IN [price |-> price,
        tradeSize |-> tradeSize,
        branch |-> IF ~tradeValidatorValid(score, price) THEN "invalid"
                   ELSE IF ~riskValidation.valid THEN "rejected"
                   ELSE IF tradeSize >= ONE_DOLLAR THEN "real"
                   ELSE "none"]

\* The branch one iteration of the trade loop takes, for the strategy `name`
\* whose best signal is (market, action, score, confidence) and the allocation
\* weight the allocator returned: "invalid" (trade validator), "rejected"
\* (risk manager), "real" (placeOrder, then logTrade with isReal true),
\* "paper" (logTrade with isReal false) or "none" (tradeSize below 1).
tradeRoute(ts, name, market, action, score, confidence, weight, champ, ensemble, prices, clock) ==
    LET price == sidePrice(action, prices[market])
        riskValidation == validate(ts, name, market, action, confidenceOrDefault(confidence), clock)
        alloc == getAllocation(weight, riskValidation.size)
        canTradeReal == IF ensemble THEN alloc.canTrade ELSE name = champ
        tradeSize == IF ensemble THEN alloc.size ELSE riskValidation.size
    IN [price |-> price,
        tradeSize |-> tradeSize,
        branch |-> IF ~tradeValidatorValid(score, price) THEN "invalid"
                   ELSE IF ~riskValidation.valid THEN "rejected"
                   ELSE IF canTradeReal /\ tradeSize >= ONE_DOLLAR THEN "real"
                   ELSE IF tradeSize >= ONE_DOLLAR THEN "paper"
                   ELSE "none"]

\* What one iteration of the trade loop does with the ledger: logTrade after
\* placeOrder, whatever the order returned, or logTrade alone.
tradeLoopBody(ts, name, market, action, score, confidence, weight, champ, ensemble, prices, clock) ==
    LET r == tradeRoute(ts, name, market, action, score, confidence, weight, champ,
                        ensemble, prices, clock)
    IN IF r.branch \in {"real", "paper"}
       THEN logTrade(ts, name, r.branch = "real", market, action, r.price, r.tradeSize, clock)
       ELSE ts

\* What the iteration records about its risk validation: the proposal, the
\* ledger facts validate reads (the market's open exposure, the portfolio
\* value, the timestamps of the strategy's trades, the triples with an open
\* trade), the clock and the result.
riskRecord(ts, name, market, action, score, confidence, prices, clock) ==
    IF ~tradeValidatorValid(score, sidePrice(action, prices[market])) THEN NoRisk
    ELSE [called |-> TRUE,
          strategy |-> name, market |-> market, action |-> action,
          exposure |-> getMarketExposure(ts, market),
          portfolio |-> getPortfolioValue(ts),
          stamps |-> {ts[i].timestamp : i \in {j \in 1..Len(ts) : ts[j].strategy = name}},
          openTriples |-> {<<ts[i].strategy, ts[i].market, ts[i].action>> :
                              i \in {j \in 1..Len(ts) : ts[j].status = "open"}},
          clock |-> clock,
          result |-> validate(ts, name, market, action, confidenceOrDefault(confidence), clock)]

\* What the iteration records about its branch: the proposal's fate at the two
\* validations (with the size the risk manager accepted), whether the strategy
\* is the one trading real capital (the champion, or a strategy with a positive
\* allocation), the size of the ledger before, the size of the trade and the
\* outcome of the placeOrder call, Null without call.
execRecord(ts, name, market, action, score, confidence, weight, champ, ensemble, prices, clock, outcome) ==
    LET validated == tradeValidatorValid(score, sidePrice(action, prices[market]))
        risk == validate(ts, name, market, action, confidenceOrDefault(confidence), clock)
        r == tradeRoute(ts, name, market, action, score, confidence, weight, champ,
                        ensemble, prices, clock)
    IN [called |-> TRUE,
        strategy |-> name,
        validated |-> validated,
        accepted |-> validated /\ risk.valid,
        riskSize |-> IF validated /\ risk.valid THEN risk.size ELSE 0,
        selected |-> validated /\ risk.valid /\ (IF ensemble THEN weight > 0 ELSE name = champ),
        tradeSize |-> IF validated /\ risk.valid THEN r.tradeSize ELSE 0,
        before |-> Len(ts),
        order |-> IF r.branch = "real" THEN <<outcome>> ELSE Null]

\* The call realTrader.placeOrder(tokenId, side, price, tradeSize, slug) and
\* what it returned: "filled" (the order) or "failed" (null).
NewOrder(name, market, action, size, clock, outcome) ==
    [strategy |-> name, market |-> market, action |-> action, size |-> size,
     timestamp |-> clock, outcome |-> outcome]

\* One iteration of the trade loop for a strategy that holds.
HoldStep ==
    /\ pc = "trade"
    /\ pc' = IF idx = Len(Strategies) THEN "compare" ELSE "trade"
    /\ idx' = idx + 1
    /\ lastRisk' = NoRisk
    /\ lastExec' = NoExec
    /\ UNCHANGED <<trades, champion, challengerWins, promotionHistory, now, useEnsemble,
                   marketCache, cycles, lastCompare, streak, seeded,
                   orders, threw, allocVars, cronVars, routeVars>>

\* One iteration of the trade loop for a strategy with a BUY signal, drawn
\* from the given signals <<market, action>>, scores and confidences; outcomes
\* are the results placeOrder can have.  A strategy whose analysis threw has
\* no signal.
TradeStepExec(signals, scores, confidences, maxTrades, outcomes) ==
    /\ pc = "trade"
    /\ Strategies[idx] \notin threw
    /\ Len(trades) < seeded + maxTrades
    /\ \E sig \in {g \in signals : g[1] \in DOMAIN marketCache},
          score \in scores, confidence \in confidences, outcome \in outcomes :
        \E weight \in allocationLevels(trades, Strategies[idx], now) :
            LET r == tradeRoute(trades, Strategies[idx], sig[1], sig[2], score,
                                confidence, weight, champion, useEnsemble,
                                marketCache, now)
            IN /\ orders' = IF r.branch = "real"
                             THEN Append(orders, NewOrder(Strategies[idx], sig[1], sig[2],
                                                          r.tradeSize, now, outcome))
                             ELSE orders
               /\ trades' = tradeLoopBody(trades, Strategies[idx], sig[1], sig[2], score,
                                          confidence, weight, champion, useEnsemble,
                                          marketCache, now)
               /\ lastRisk' = riskRecord(trades, Strategies[idx], sig[1], sig[2], score,
                                         confidence, marketCache, now)
               /\ lastExec' = execRecord(trades, Strategies[idx], sig[1], sig[2], score,
                                         confidence, weight, champion, useEnsemble,
                                         marketCache, now, outcome)
    /\ pc' = IF idx = Len(Strategies) THEN "compare" ELSE "trade"
    /\ idx' = idx + 1
    /\ UNCHANGED <<champion, challengerWins, promotionHistory, now, useEnsemble,
                   marketCache, cycles, lastCompare, streak, seeded,
                   threw, allocVars, cronVars, routeVars>>

\* The iteration with every order filled.
TradeStepWith(signals, scores, confidences, maxTrades) ==
    TradeStepExec(signals, scores, confidences, maxTrades, {"filled"})

\* The end of runCompetition: compareAndPromote.
CompareStep ==
    /\ pc = "compare"
    /\ LET r == compareAndPromote(trades, champion, challengerWins, promotionHistory, now)
       IN /\ champion' = r.champion
          /\ challengerWins' = r.challengerWins
          /\ promotionHistory' = r.promotionHistory
          /\ lastCompare' = [done |-> TRUE, winner |-> r.winner,
                             champion |-> champion, challengerWins |-> challengerWins,
                             promotionHistory |-> promotionHistory,
                             performances |-> getPerformanceWindow(
                                 trades, COMPARISON_WINDOW_HOURS, Null, now)]
          /\ streak' = [s \in StrategySet |-> IF s = r.winner THEN streak[s] + 1 ELSE 0]
    /\ pc' = "idle"
    /\ idx' = 1
    /\ lastRisk' = NoRisk
    /\ lastExec' = NoExec
    /\ UNCHANGED <<trades, now, useEnsemble, marketCache, cycles, seeded,
                   orders, threw, allocVars, cronVars, routeVars>>

\* The close command: closeMarket(market, outcome).
CloseMarketWith(outcomes) ==
    /\ pc = "idle"
    /\ \E market \in Markets, outcome \in outcomes :
        trades' = closeMarket(trades, market, outcome)
    /\ UNCHANGED <<champion, challengerWins, promotionHistory, now, useEnsemble, pc, idx,
                   marketCache, cycles, lastRisk, lastCompare, streak, seeded,
                   execVars, allocVars, cronVars, routeVars>>

\* updateMarkToMarket(market, currentPrices)
UpdateMarkToMarket ==
    /\ pc = "idle"
    /\ \E market \in Markets, up \in UpPrices :
        trades' = updateMarkToMarket(trades, market, <<up>>)
    /\ UNCHANGED <<champion, challengerWins, promotionHistory, now, useEnsemble, pc, idx,
                   marketCache, cycles, lastRisk, lastCompare, streak, seeded,
                   execVars, allocVars, cronVars, routeVars>>

----------------------------------------------------------------------------
(* Spec: arena cycles, ten minutes apart, and market closes.  Each strategy  *)
(* either holds or has one fixed best signal, at full confidence.           *)

MaxTrades == 2
MaxCycles == 4

\* The best signal each strategy can have in a cycle of this specification.
ArenaSignals(name) ==
    CASE name = <<"baseline">> -> {<<"btc", "BUY_UP">>}
      [] name = <<"momentum_pure">> -> {<<"btc", "BUY_DOWN">>}
      [] OTHER -> {<<"eth", "BUY_UP">>}

StartCycle == StartCycleWith({COOLDOWN_MINUTES}, PriceMaps, MaxCycles)
TradeStep == TradeStepWith(ArenaSignals(Strategies[idx]), Scores, Confidences, MaxTrades)
CloseMarket == CloseMarketWith({"UP", "DOWN"})

Next ==
    \/ StartCycle
    \/ HoldStep
    \/ TradeStep
    \/ CompareStep
    \/ CloseMarket

Spec == Init /\ [][Next]_vars

----------------------------------------------------------------------------
(* SpecRisk: the risk manager on a filling ledger.  The process starts on    *)
(* the ledger file earlier cycles left: a prefix of the trades a scripted    *)
(* run of the trade loop logs (champion mode, every price at 50), which      *)
(* fills the default market up to its exposure cap.  From there cycles take  *)
(* any signal, five or ten minutes apart.                                    *)

RiskMaxNewTrades == 2
RiskMaxCycles == 1

SeedPrices == [m \in Markets |-> 50]

\* The signals of the scripted run: two cycles, ten minutes apart.
SeedScript ==
    << [name |-> <<"baseline">>,      market |-> "eth", action |-> "BUY_UP",   clock |-> 1],
       [name |-> <<"momentum_pure">>, market |-> "btc", action |-> "BUY_UP",   clock |-> 1],
       [name |-> <<"whale_copy">>,    market |-> "btc", action |-> "BUY_UP",   clock |-> 1],
       [name |-> <<"baseline">>,      market |-> "btc", action |-> "BUY_UP",   clock |-> 11],
       [name |-> <<"momentum_pure">>, market |-> "btc", action |-> "BUY_DOWN", clock |-> 11],
       [name |-> <<"whale_copy">>,    market |-> "btc", action |-> "BUY_DOWN", clock |-> 11] >>

\* The ledger after the first n iterations of the scripted run.
RECURSIVE SeedLedger(_)
SeedLedger(n) ==
    IF n = 0 THEN <<>>
    ELSE tradeLoopBody(SeedLedger(n - 1), SeedScript[n].name, SeedScript[n].market,
                       SeedScript[n].action, 80, 100, 100, <<"baseline">>, FALSE,
                       SeedPrices, SeedScript[n].clock)

\* The points of the scripted run the process can start after: nothing, the
\* first cycle, and the last two iterations of the second.
SeedPoints == {0, 3, 5, 6}

InitRisk ==
    /\ \E n \in SeedPoints :
        /\ trades = SeedLedger(n)
        /\ seeded = Len(SeedLedger(n))
        /\ now = IF n = 0 THEN 1 ELSE SeedScript[n].clock
    /\ champion = <<"baseline">>
    /\ challengerWins = EmptyWins
    /\ promotionHistory = <<>>
    /\ useEnsemble = FALSE
    /\ pc = "idle"
    /\ idx = 1
    /\ marketCache = SeedPrices
    /\ cycles = 0
    /\ lastRisk = NoRisk
    /\ lastCompare = NoCompare
    /\ streak = [s \in StrategySet |-> 0]
    /\ orders = <<>>
    /\ lastExec = NoExec
    /\ threw = {}
    /\ stats = NoStats
    /\ allocations = NoStats
    /\ ledgerFile = NoFile
    /\ arenaFile = NoFile
    /\ ensembleFile = NoFile
    /\ procs = NoProcs
    /\ targetMarkets = NoTargets
    /\ results = NoResults
    /\ order = NoOrder

RiskStartCycle == StartCycleWith({5, COOLDOWN_MINUTES}, {SeedPrices}, RiskMaxCycles)
RiskCloseMarket == CloseMarketWith({"UP"})
RiskTradeStep == TradeStepWith(Markets \X Actions, Scores, Confidences, RiskMaxNewTrades)

NextRisk ==
    \/ RiskStartCycle
    \/ HoldStep
    \/ RiskTradeStep
    \/ CompareStep
    \/ RiskCloseMarket

SpecRisk == InitRisk /\ [][NextRisk]_vars

----------------------------------------------------------------------------
(* SpecLedger: the ledger on its own.  Trades are logged directly, as the     *)
(* trade commands do (baseline trades real, creative ones on paper under a   *)
(* prefixed id), markets are closed, take-profit sweeps and mark-to-market   *)
(* updates run, in any order.                                                *)

LedgerMaxTrades == 2

LedgerStrategies == {<<"baseline">>, <<"creative", "whale_copy">>}
LedgerSignals == {<<"btc", "BUY_UP">>, <<"btc", "BUY_DOWN">>, <<"eth", "BUY_UP">>}
LedgerEntryPrices == {25}
LedgerSizes == {2500}

InitLedger == Init /\ useEnsemble = FALSE

\* logTrade(params)
LedgerLogTrade ==
    /\ pc = "idle"
    /\ Len(trades) < LedgerMaxTrades
    /\ \E strategy \in LedgerStrategies, sig \in LedgerSignals,
          entryPrice \in LedgerEntryPrices, size \in LedgerSizes :
        trades' = logTrade(trades, strategy, strategy = <<"baseline">>, sig[1], sig[2],
                           entryPrice, size, now)
    /\ UNCHANGED <<champion, challengerWins, promotionHistory, now, useEnsemble, pc, idx,
                   marketCache, cycles, lastRisk, lastCompare, streak, seeded,
                   execVars, allocVars, cronVars, routeVars>>

\* checkTakeProfits(marketPrices)
LedgerTakeProfits ==
    /\ pc = "idle"
    /\ \E prices \in PriceMaps : trades' = checkTakeProfits(trades, prices)
    /\ UNCHANGED <<champion, challengerWins, promotionHistory, now, useEnsemble, pc, idx,
                   marketCache, cycles, lastRisk, lastCompare, streak, seeded,
                   execVars, allocVars, cronVars, routeVars>>

NextLedger ==
    \/ LedgerLogTrade
    \/ CloseMarket
    \/ LedgerTakeProfits
    \/ UpdateMarkToMarket

SpecLedger == InitLedger /\ [][NextLedger]_vars

----------------------------------------------------------------------------
(* SpecIds: logTrade calls at any clock readings: between two calls the      *)
(* clock stands still or moves on.                                          *)

IdsMaxClock == 3

\* Date.now() moves on.
ClockTick ==
    /\ pc = "idle"
    /\ now < IdsMaxClock
    /\ now' = now + 1
    /\ UNCHANGED <<trades, champion, challengerWins, promotionHistory, useEnsemble, pc, idx,
                   marketCache, cycles, lastRisk, lastCompare, streak, seeded,
                   execVars, allocVars, cronVars, routeVars>>

NextIds ==
    \/ LedgerLogTrade
    \/ ClockTick

SpecIds == InitLedger /\ [][NextIds]_vars

----------------------------------------------------------------------------
(* SpecExec: the execution branch of the trade loop.  Orders can fail, an    *)
(* analysis can throw, and the process starts either on an empty ledger or  *)
(* on the ledger of three earlier cycles in which whale_copy traded on paper *)
(* and won (the only strategy the allocator then finds eligible).           *)

ExecMaxTrades == 2
ExecMaxCycles == 2

\* The ledger after n earlier cycles, ten minutes apart from clock 1 on: in
\* each whale_copy buys UP on "eth" at 50 on paper, and the market closes UP.
RECURSIVE ExecSeedLedger(_)
ExecSeedLedger(n) ==
    IF n = 0 THEN <<>>
    ELSE closeMarket(
             tradeLoopBody(ExecSeedLedger(n - 1), <<"whale_copy">>, "eth", "BUY_UP", 80, 100,
                           100, <<"baseline">>, FALSE, SeedPrices,
                           1 + (n - 1) * COOLDOWN_MINUTES),
             "eth", "UP")

ExecSeedPoints == {0, MIN_TRADES}

\* The analyses that can throw in a cycle.
ExecThrowSets == {{}, {<<"baseline">>}, {<<"whale_copy">>}}

InitExec ==
    /\ \E n \in ExecSeedPoints :
        /\ trades = ExecSeedLedger(n)
        /\ seeded = Len(ExecSeedLedger(n))
        /\ now = IF n = 0 THEN 1 ELSE 1 + (n - 1) * COOLDOWN_MINUTES
    /\ champion = <<"baseline">>
    /\ challengerWins = EmptyWins
    /\ promotionHistory = <<>>
    /\ useEnsemble \in BOOLEAN
    /\ pc = "idle"
    /\ idx = 1
    /\ marketCache = SeedPrices
    /\ cycles = 0
    /\ lastRisk = NoRisk
    /\ lastCompare = NoCompare
    /\ streak = [s \in StrategySet |-> 0]
    /\ orders = <<>>
    /\ lastExec = NoExec
    /\ threw = {}
    /\ stats = NoStats
    /\ allocations = NoStats
    /\ ledgerFile = NoFile
    /\ arenaFile = NoFile
    /\ ensembleFile = NoFile
    /\ procs = NoProcs
    /\ targetMarkets = NoTargets
    /\ results = NoResults
    /\ order = NoOrder

ExecStartCycle == StartCycleExec({COOLDOWN_MINUTES}, PriceMaps, ExecMaxCycles, ExecThrowSets)
ExecTradeStep ==
    TradeStepExec(ArenaSignals(Strategies[idx]), Scores, Confidences, ExecMaxTrades,
                  {"filled", "failed"})

NextExec ==
    \/ ExecStartCycle
    \/ HoldStep
    \/ ExecTradeStep
    \/ CompareStep

SpecExec == InitExec /\ [][NextExec]_vars

----------------------------------------------------------------------------
(* SpecAlloc: the allocator on the statistics of any ledger.  A strategy of  *)
(* the ledger has no closed trade yet, or a losing record (Sharpe below 0),  *)
(* or winning trades of equal PnL (Sharpe 0), or a Sharpe ratio above 0.     *)

StatProfiles ==
    { Stat(0, 0, 0, 0),
      Stat(3, 1, -500, -350),
      Stat(3, 3, 7500, 0),
      Stat(4, 3, 5000, 50),
      Stat(4, 3, 5000, 500),
      Stat(5, 4, 9000, 3000) }

InitAlloc ==
    /\ trades = <<>>
    /\ champion = <<"baseline">>
    /\ challengerWins = EmptyWins
    /\ promotionHistory = <<>>
    /\ now = 1
    /\ useEnsemble = TRUE
    /\ pc = "idle"
    /\ idx = 1
    /\ marketCache = [m \in {DefaultMarket} |-> 50]
    /\ cycles = 0
    /\ lastRisk = NoRisk
    /\ lastCompare = NoCompare
    /\ streak = [s \in StrategySet |-> 0]
    /\ seeded = 0
    /\ orders = <<>>
    /\ lastExec = NoExec
    /\ threw = {}
    /\ stats = NoStats
    /\ allocations = NoStats
    /\ ledgerFile = NoFile
    /\ arenaFile = NoFile
    /\ ensembleFile = NoFile
    /\ procs = NoProcs
    /\ targetMarkets = NoTargets
    /\ results = NoResults
    /\ order = NoOrder

\* getStrategyStats(): the statistics of the strategies with trades in the
\* lookback window.
GetStrategyStats ==
    /\ \E names \in SUBSET StrategySet \ {{}} : stats' \in [names -> StatProfiles]
    /\ allocations' = NoStats
    /\ UNCHANGED <<trades, champion, challengerWins, promotionHistory, now, useEnsemble, pc,
                   idx, marketCache, cycles, lastRisk, lastCompare, streak, seeded,
                   execVars, cronVars, routeVars>>

\* calculateAllocations()
CalculateAllocations ==
    /\ stats # NoStats
    /\ allocations = NoStats
    /\ allocations' = calculateAllocations(stats)
    /\ UNCHANGED <<trades, champion, challengerWins, promotionHistory, now, useEnsemble, pc,
                   idx, marketCache, cycles, lastRisk, lastCompare, streak, seeded,
                   execVars, stats, cronVars, routeVars>>

NextAlloc ==
    \/ GetStrategyStats
    \/ CalculateAllocations

SpecAlloc == InitAlloc /\ [][NextAlloc]_vars

----------------------------------------------------------------------------
(* SpecCron: the compete processes cron starts (`npm run compete`, every     *)
(* five minutes) over the two files.  A process loads both files when it is  *)
(* constructed, runs one cycle on its memory image and rewrites a file       *)
(* whole at each save; cron starts a process whether or not an earlier one   *)
(* has ended.  fs.writeFileSync opens the file truncating it and then writes *)
(* the text: until the write is over, and for good when the process dies or  *)
(* the write fails in between, the file holds a part of the text.  Every     *)
(* market is at 50, so that the take-profit sweep closes nothing.            *)

CronProcs == {1, 2}
CronMaxRuns == 1

\* The variables of one process's arena cycle, not followed by SpecCron.
cycleVars == <<trades, champion, challengerWins, promotionHistory, now, useEnsemble, pc, idx,
               marketCache, cycles, lastRisk, lastCompare, streak, seeded>>

\* What identifies a logged trade in a snapshot.
tradeKey(t) == <<t.id, t.strategy, t.market, t.action>>
tradeKeys(ts) == {tradeKey(ts[i]) : i \in 1..Len(ts)}

\* A complete snapshot of the ledger; `saved` is a ghost, the trades whose
\* save has completed so far.
LedgerSnapshot(ts, saved) == [complete |-> TRUE, trades |-> ts, saved |-> saved]

\* The ledger file while a write is under way, or after one that did not end.
LedgerPartial(saved) == [complete |-> FALSE, trades |-> <<>>, saved |-> saved]

\* A complete snapshot of the arena state.
ArenaSnapshot(champ, cw, history) ==
    [complete |-> TRUE, champion |-> champ, challengerWins |-> cw, promotionHistory |-> history]

\* The arena file while a write is under way, or after one that did not end.
ArenaPartial ==
    [complete |-> FALSE, champion |-> Null, challengerWins |-> EmptyWins,
     promotionHistory |-> <<>>]

\* PaperTrader.load: the trades of the file, none when JSON.parse throws.
loadLedger(file) == IF file.complete THEN file.trades ELSE <<>>

\* StrategyArena.loadState: the state of the file, the default one when
\* JSON.parse throws.
loadState(file) ==
    IF file.complete
    THEN [champion |-> file.champion, challengerWins |-> file.challengerWins,
          promotionHistory |-> file.promotionHistory]
    ELSE [champion |-> <<"baseline">>, challengerWins |-> EmptyWins, promotionHistory |-> <<>>]

\* A process that is not running.
ProcOff(runs) ==
    [pc |-> "off", trades |-> <<>>, state |-> loadState(ArenaPartial), runs |-> runs,
     traded |-> FALSE, sawPartial |-> FALSE]

\* The strategy whose proposal process p's cycle logs.
CronStrategy(p) == Strategies[p + 1]

InitCron ==
    /\ trades = <<>>
    /\ champion = <<"baseline">>
    /\ challengerWins = EmptyWins
    /\ promotionHistory = <<>>
    /\ now = 1 + MIN_TRADES * COOLDOWN_MINUTES
    /\ useEnsemble = FALSE
    /\ pc = "idle"
    /\ idx = 1
    /\ marketCache = SeedPrices
    /\ cycles = 0
    /\ lastRisk = NoRisk
    /\ lastCompare = NoCompare
    /\ streak = [s \in StrategySet |-> 0]
    /\ seeded = 0
    /\ orders = <<>>
    /\ lastExec = NoExec
    /\ threw = {}
    /\ stats = NoStats
    /\ allocations = NoStats
    /\ \E n \in ExecSeedPoints :
          ledgerFile = LedgerSnapshot(ExecSeedLedger(n), tradeKeys(ExecSeedLedger(n)))
    /\ arenaFile = ArenaSnapshot(<<"baseline">>, EmptyWins, <<>>)
    /\ ensembleFile = NoFile
    /\ procs = [p \in CronProcs |-> ProcOff(0)]
    /\ targetMarkets = NoTargets
    /\ results = NoResults
    /\ order = NoOrder

\* cron starts `npm run compete`: new StrategyArena() loads both files, and
\* runCompetition runs the take-profit sweep.
CronStart(p) ==
    /\ procs[p].pc = "off"
    /\ procs[p].runs < CronMaxRuns
    /\ procs' = [procs EXCEPT ![p] =
          [pc |-> "run",
           trades |-> checkTakeProfits(loadLedger(ledgerFile), marketCache),
           state |-> loadState(arenaFile),
           runs |-> procs[p].runs + 1,
           traded |-> FALSE,
           sawPartial |-> ~ledgerFile.complete \/ ~arenaFile.complete]]
    /\ UNCHANGED <<cycleVars, execVars, allocVars, routeVars, ledgerFile, arenaFile, ensembleFile>>

\* The iteration of the trade loop that logs the process's trade: logTrade
\* pushes it and save() opens the ledger file.
CronLogTrade(p) ==
    /\ procs[p].pc = "run"
    /\ ~procs[p].traded
    /\ LET logged == tradeLoopBody(procs[p].trades, CronStrategy(p), "eth", "BUY_UP", 80,
                                   100, 100, procs[p].state.champion, FALSE, marketCache, now)
       IN /\ logged # procs[p].trades
          /\ procs' = [procs EXCEPT ![p].pc = "save", ![p].trades = logged,
                                    ![p].traded = TRUE]
    /\ ledgerFile' = LedgerPartial(ledgerFile.saved)
    /\ UNCHANGED <<cycleVars, execVars, allocVars, routeVars, arenaFile, ensembleFile>>

\* save()'s write ends: the file holds the process's ledger.
CronSaved(p) ==
    /\ procs[p].pc = "save"
    /\ ledgerFile' = LedgerSnapshot(procs[p].trades,
                                    ledgerFile.saved \cup tradeKeys(procs[p].trades))
    /\ procs' = [procs EXCEPT ![p].pc = "run"]
    /\ UNCHANGED <<cycleVars, execVars, allocVars, routeVars, arenaFile, ensembleFile>>

\* compareAndPromote on the process's memory; saveState() opens the arena file.
CronCompare(p) ==
    /\ procs[p].pc = "run"
    /\ LET r == compareAndPromote(procs[p].trades, procs[p].state.champion,
                                  procs[p].state.challengerWins,
                                  procs[p].state.promotionHistory, now)
       IN procs' = [procs EXCEPT ![p].pc = "saveState",
                                 ![p].state = [champion |-> r.champion,
                                               challengerWins |-> r.challengerWins,
                                               promotionHistory |-> r.promotionHistory]]
    /\ arenaFile' = ArenaPartial
    /\ UNCHANGED <<cycleVars, execVars, allocVars, routeVars, ledgerFile, ensembleFile>>

\* saveState()'s write ends, and the process exits.
CronStateSaved(p) ==
    /\ procs[p].pc = "saveState"
    /\ arenaFile' = ArenaSnapshot(procs[p].state.champion, procs[p].state.challengerWins,
                                  procs[p].state.promotionHistory)
    /\ procs' = [procs EXCEPT ![p] = ProcOff(procs[p].runs)]
    /\ UNCHANGED <<cycleVars, execVars, allocVars, routeVars, ledgerFile, ensembleFile>>

\* The process dies (it is killed, or a write throws): the files stay as
\* they are.
CronDie(p) ==
    /\ procs[p].pc # "off"
    /\ procs' = [procs EXCEPT ![p] = ProcOff(procs[p].runs)]
    /\ UNCHANGED <<cycleVars, execVars, allocVars, routeVars, ledgerFile, arenaFile, ensembleFile>>

NextCron ==
    \/ \E p \in CronProcs : CronStart(p)
    \/ \E p \in CronProcs : CronLogTrade(p)
    \/ \E p \in CronProcs : CronSaved(p)
    \/ \E p \in CronProcs : CronCompare(p)
    \/ \E p \in CronProcs : CronStateSaved(p)
    \/ \E p \in CronProcs : CronDie(p)

SpecCron == InitCron /\ [][NextCron]_vars

----------------------------------------------------------------------------
(* SpecLoad: one process constructed over the three files as it finds them,  *)
(* then logTrade and compareAndPromote on what it loaded.  A JavaScript      *)
(* object is the function from its property names to their values ({} is    *)
(* EmptyObject); the ledger document is followed by its trades property.    *)

LoadMaxTrades == 1
LoadMaxCompares == 3

EmptyObject == [k \in {} |-> Null]

\* A file as a constructor finds it: fs.existsSync is false, fs.readFileSync
\* throws, JSON.parse throws, or JSON.parse returns a value.
FileMissing == [kind |-> "missing"]
FileUnreadable == [kind |-> "unreadable"]
FileNotJson == [kind |-> "syntax"]
FileJson(value) == [kind |-> "json", value |-> value]

\* The try block the three loaders share: the parsed value whatever it is,
\* the default when the file is missing or the block throws.
loadOr(file, default) == IF file.kind = "json" THEN file.value ELSE default

\* The defaults of PaperTrader.load, StrategyArena.loadState and
\* EnsembleAllocator.loadState.
EmptyData == [trades |-> <<>>]
DefaultArenaState ==
    [champion |-> <<"baseline">>, challengerWins |-> EmptyWins, promotionHistory |-> <<>>]
DefaultEnsembleState == [mode |-> "ensemble", allocations |-> EmptyWins]

load(file) == loadOr(file, EmptyData)
loadArenaState(file) == loadOr(file, DefaultArenaState)
loadEnsembleState(file) == loadOr(file, DefaultEnsembleState)

\* obj[name], `undefined` when the object has no such property.
prop(obj, name, undefined) == IF name \in DOMAIN obj THEN obj[name] ELSE undefined

\* obj[name] = value
assign(obj, name, value) == [k \in DOMAIN obj \cup {name} |-> IF k = name THEN value ELSE obj[k]]

\* compareAndPromote on the loaded objects: the state it leaves, and whether
\* it threw a TypeError (this.data.trades.filter, this.state.challengerWins[..],
\* this.state.promotionHistory.push on a property that is undefined).
compareLoaded(data, state, clock) ==
    LET champ == prop(state, "champion", Null)
        r == compareAndPromote(data["trades"], champ, prop(state, "challengerWins", EmptyWins),
                               prop(state, "promotionHistory", <<>>), clock)
        promoted == r.winner # None /\ r.champion = r.winner
    IN IF "trades" \notin DOMAIN data THEN [threw |-> TRUE, state |-> state]
       ELSE IF r.winner = None
       THEN [threw |-> FALSE, state |-> assign(state, "challengerWins", r.challengerWins)]
       ELSE IF "challengerWins" \notin DOMAIN state THEN [threw |-> TRUE, state |-> state]
       ELSE IF ~promoted
       THEN [threw |-> FALSE, state |-> assign(state, "challengerWins", r.challengerWins)]
       ELSE IF "promotionHistory" \notin DOMAIN state
       THEN [threw |-> TRUE,
             state |-> assign(state, "challengerWins", winsAfterWin(state["challengerWins"], r.winner))]
       ELSE [threw |-> FALSE,
             state |-> assign(assign(assign(state, "promotionHistory", r.promotionHistory),
                                     "champion", r.champion),
                              "challengerWins", r.challengerWins)]

\* The files a process can find.
LoadLedgerFiles ==
    {FileMissing, FileUnreadable, FileNotJson, FileJson(EmptyObject)}
    \cup {FileJson([trades |-> ExecSeedLedger(n)]) : n \in ExecSeedPoints}
LoadArenaFiles ==
    {FileMissing, FileUnreadable, FileNotJson, FileJson(EmptyObject), FileJson(DefaultArenaState)}
LoadEnsembleFiles ==
    {FileMissing, FileNotJson, FileJson(EmptyObject), FileJson(DefaultEnsembleState)}

InitLoad ==
    /\ trades = <<>>
    /\ champion = <<"baseline">>
    /\ challengerWins = EmptyWins
    /\ promotionHistory = <<>>
    /\ now = 1 + MIN_TRADES * COOLDOWN_MINUTES
    /\ useEnsemble = FALSE
    /\ pc = "idle"
    /\ idx = 1
    /\ marketCache = SeedPrices
    /\ cycles = 0
    /\ lastRisk = NoRisk
    /\ lastCompare = NoCompare
    /\ streak = [s \in StrategySet |-> 0]
    /\ seeded = 0
    /\ orders = <<>>
    /\ lastExec = NoExec
    /\ threw = {}
    /\ stats = NoStats
    /\ allocations = NoStats
    /\ ledgerFile \in LoadLedgerFiles
    /\ arenaFile \in LoadArenaFiles
    /\ ensembleFile \in LoadEnsembleFiles
    /\ procs = [pc |-> "off"]
    /\ targetMarkets = NoTargets
    /\ results = NoResults
    /\ order = NoOrder

\* new StrategyArena(): the three constructors load their files.  `found` and
\* `loaded` are ghosts, the files as they were and the objects as loaded.
LoadConstruct ==
    /\ procs.pc = "off"
    /\ procs' = [pc |-> "ready",
                 data |-> load(ledgerFile),
                 state |-> loadArenaState(arenaFile),
                 ensemble |-> loadEnsembleState(ensembleFile),
                 found |-> [ledger |-> ledgerFile, arena |-> arenaFile,
                            ensemble |-> ensembleFile],
                 loaded |-> [data |-> load(ledgerFile), state |-> loadArenaState(arenaFile),
                             ensemble |-> loadEnsembleState(ensembleFile)],
                 logged |-> 0, compares |-> 0]
    /\ UNCHANGED <<cycleVars, execVars, allocVars, routeVars, ledgerFile, arenaFile, ensembleFile>>

\* logTrade: this.data.trades.push(trade) throws a TypeError when the loaded
\* document has no trades; otherwise save() rewrites the file.
LoadLogTrade ==
    /\ procs.pc = "ready"
    /\ procs.logged < LoadMaxTrades
    /\ IF "trades" \in DOMAIN procs.data
       THEN LET data == assign(procs.data, "trades",
                               logTrade(procs.data["trades"], <<"baseline">>, FALSE,
                                        DefaultMarket, "BUY_UP", 50, MIN_TRADE_SIZE, now))
            IN /\ procs' = [procs EXCEPT !.data = data, !.logged = @ + 1]
               /\ ledgerFile' = FileJson(data)
       ELSE /\ procs' = [procs EXCEPT !.pc = "failed"]
            /\ UNCHANGED ledgerFile
    /\ UNCHANGED <<cycleVars, execVars, allocVars, routeVars, arenaFile, ensembleFile>>

\* compareAndPromote, ending with saveState() when it did not throw.
LoadCompare ==
    /\ procs.pc = "ready"
    /\ procs.compares < LoadMaxCompares
    /\ LET r == compareLoaded(procs.data, procs.state, now)
       IN /\ procs' = [procs EXCEPT !.pc = IF r.threw THEN "failed" ELSE "ready",
                                    !.state = r.state, !.compares = @ + 1]
          /\ arenaFile' = IF r.threw THEN arenaFile ELSE FileJson(r.state)
    /\ UNCHANGED <<cycleVars, execVars, allocVars, routeVars, ledgerFile, ensembleFile>>

NextLoad ==
    \/ LoadConstruct
    \/ LoadLogTrade
    \/ LoadCompare

SpecLoad == InitLoad /\ [][NextLoad]_vars

----------------------------------------------------------------------------
(* SpecRoute: the analysis phase of runCompetition and the routing of the    *)
(* strategies to markets.  The registry holds baseline, which declares no    *)
(* targetMarkets, and dem_nom_sentiment_gas_accel, which declares some; a    *)
(* string is the sequence of its characters.  In a cycle a strategy's        *)
(* analysis of a market holds, or buys UP with a weak or a strong score;    *)
(* the cycles run in champion mode with every market at 50.                 *)

RouteMaxCycles == 2

RouteStrategies == << <<"baseline">>, <<"dem_nom_sentiment_gas_accel">> >>
RouteStrategySet == {RouteStrategies[i] : i \in 1..Len(RouteStrategies)}

\* this.activeMarkets.markets, in the order of data/active-markets.json; the
\* default market is DefaultMarket.
RouteActiveMarkets == <<"btc", "eth">>

\* The characters of a market's slug.
slugChars(m) ==
    CASE m = "btc" -> <<"b", "t", "c">>
      [] m = "eth" -> <<"e", "t", "h">>

\* String.prototype.toLowerCase, on the letters the slugs and patterns use.
lowerChar(c) ==
    CASE c = "B" -> "b" [] c = "C" -> "c" [] c = "E" -> "e" [] c = "H" -> "h"
      [] c = "T" -> "t" [] c = "X" -> "x" [] OTHER -> c
toLowerCase(s) == [i \in 1..Len(s) |-> lowerChar(s[i])]

\* String.prototype.includes
includes(s, pattern) ==
    \E i \in 0..(Len(s) - Len(pattern)) : SubSeq(s, i + 1, i + Len(pattern)) = pattern

\* instance.targetMarkets.some(pattern => slug.includes(pattern.toLowerCase()))
matchesTargets(m, targets) ==
    \E i \in 1..Len(targets) : includes(toLowerCase(slugChars(m)), toLowerCase(targets[i]))

\* findMarketForStrategy(strategy): targets is Null or <<instance.targetMarkets>>,
\* hook is Null or <<the markets instance.matchesMarket accepts>>; the result
\* is Null (null) or <<slug>>.
findMarketForStrategy(targets, hook, active, default) ==
    LET byTargets == SelectSeq(active, LAMBDA m : matchesTargets(m, targets[1]))
        byHook == SelectSeq(active, LAMBDA m : m \in hook[1])
    IN IF targets # Null
       THEN (IF byTargets = <<>> THEN Null ELSE <<Head(byTargets)>>)
       ELSE IF hook # Null /\ byHook # <<>> THEN <<Head(byHook)>>
       ELSE <<default>>

\* allMarkets = Object.keys(marketCache): the default market, then the active
\* markets that were fetched.
allMarkets(cache, default, active) ==
    <<default>> \o SelectSeq(active, LAMBDA m : m # default /\ m \in DOMAIN cache)

\* The result of one analysis, and `bestResult` before the first one.
Analysis(action, score) == [action |-> action, score |-> score]
NoBest == [marketSlug |-> Null, action |-> "HOLD", score |-> -1]

\* The loop over allMarkets that keeps the strongest signal that is not HOLD.
RECURSIVE bestSignal(_, _, _)
bestSignal(markets, analyses, best) ==
    IF markets = <<>> THEN best
    ELSE LET m == Head(markets)
             result == analyses[m]
         IN IF result.score > best.score /\ result.action # "HOLD"
            THEN bestSignal(Tail(markets), analyses,
                            [marketSlug |-> <<m>>, action |-> result.action,
                             score |-> result.score])
            ELSE bestSignal(Tail(markets), analyses, best)

\* results[name]: the best signal, or HOLD on the default market.
resultOf(markets, analyses, default) ==
    LET best == bestSignal(markets, analyses, NoBest)
    IN IF best.marketSlug = Null
       THEN [marketSlug |-> <<default>>, action |-> "HOLD", score |-> 0]
       ELSE best

\* The analyses a strategy can return for a market, and the targetMarkets the
\* second strategy can declare: a pattern of eth in upper case, a pattern of
\* both markets, a pattern of no market, and the latter before one of eth.
RouteAnalyses == {Analysis("HOLD", 0)} \cup {Analysis("BUY_UP", s) : s \in Scores}
RouteTargets ==
    { << <<"E", "T">> >>, << <<"t">> >>, << <<"x">> >>, << <<"x">>, <<"t", "h">> >> }

InitRoute ==
    /\ trades = <<>>
    /\ champion = <<"baseline">>
    /\ challengerWins = EmptyWins
    /\ promotionHistory = <<>>
    /\ now = 1
    /\ useEnsemble = FALSE
    /\ pc = "idle"
    /\ idx = 1
    /\ marketCache = SeedPrices
    /\ cycles = 0
    /\ lastRisk = NoRisk
    /\ lastCompare = NoCompare
    /\ streak = [s \in StrategySet |-> 0]
    /\ seeded = 0
    /\ orders = <<>>
    /\ lastExec = NoExec
    /\ threw = {}
    /\ stats = NoStats
    /\ allocations = NoStats
    /\ ledgerFile = NoFile
    /\ arenaFile = NoFile
    /\ ensembleFile = NoFile
    /\ procs = NoProcs
    /\ \E t \in RouteTargets :
          targetMarkets = [n \in RouteStrategySet |->
                              IF n = <<"baseline">> THEN Null ELSE <<t>>]
    /\ results = NoResults
    /\ order = NoOrder

\* runCompetition up to the trade loop: the take-profit sweep, then every
\* strategy analyses every market of the cache and keeps its best signal.
RouteAnalyse ==
    /\ pc = "idle"
    /\ cycles < RouteMaxCycles
    /\ now' = now + COOLDOWN_MINUTES
    /\ trades' = checkTakeProfits(trades, marketCache)
    /\ \E analyses \in [RouteStrategySet -> [Markets -> RouteAnalyses]] :
          results' = [n \in RouteStrategySet |->
                         resultOf(allMarkets(marketCache, DefaultMarket, RouteActiveMarkets),
                                  analyses[n], DefaultMarket)]
    /\ pc' = "trade"
    /\ idx' = 1
    /\ cycles' = cycles + 1
    /\ lastRisk' = NoRisk
    /\ lastCompare' = NoCompare
    /\ UNCHANGED <<champion, challengerWins, promotionHistory, useEnsemble, marketCache,
                   streak, seeded, execVars, allocVars, cronVars, targetMarkets, order>>

\* One iteration of the trade loop, on results[name].
RouteTradeStep ==
    /\ pc = "trade"
    /\ LET name == RouteStrategies[idx]
           result == results[name]
       IN trades' = IF result.action = "HOLD" THEN trades
                    ELSE tradeLoopBody(trades, name, result.marketSlug[1], result.action,
                                       result.score, 100, 100, champion, useEnsemble,
                                       marketCache, now)
    /\ pc' = IF idx = Len(RouteStrategies) THEN "compare" ELSE "trade"
    /\ idx' = idx + 1
    /\ UNCHANGED <<champion, challengerWins, promotionHistory, now, useEnsemble,
                   marketCache, cycles, lastRisk, lastCompare, streak, seeded,
                   execVars, allocVars, cronVars, routeVars>>

NextRoute ==
    \/ RouteAnalyse
    \/ RouteTradeStep
    \/ CompareStep

SpecRoute == InitRoute /\ [][NextRoute]_vars

----------------------------------------------------------------------------
(* SpecOrder: cycles whose trade loop processes the registry in any order.   *)
(* The loop follows the insertion order of `results`, which is the one of    *)
(* loadStrategies: fs.readdirSync's, then the creative variants.  A strategy *)
(* holds or has its fixed signal of Spec, with a strong score and full       *)
(* confidence; the cycles run in champion mode with every market at 50, and  *)
(* markets close in between.                                                *)

OrderMaxCycles == 2

\* The orders of the registry.
Orders ==
    {o \in [1..Len(Strategies) -> StrategySet] :
        \A i, j \in 1..Len(Strategies) : o[i] = o[j] => i = j}

\* The proposals of a cycle: per strategy HOLD, or its signal.
OrderResults ==
    {r \in [StrategySet -> [marketSlug : {<<m>> : m \in Markets}, action : Actions \cup {"HOLD"},
                            score : {0, 80}]] :
        \A n \in StrategySet :
            \/ r[n] = [marketSlug |-> <<DefaultMarket>>, action |-> "HOLD", score |-> 0]
            \/ /\ r[n].score = 80
               /\ <<r[n].marketSlug[1], r[n].action>> \in ArenaSignals(n)}

\* The trade loop (arena.js 319-403) over the entries of `res` in the order o.
RECURSIVE tradeLoop(_, _, _, _, _, _, _)
tradeLoop(ts, o, res, champ, ensemble, prices, clock) ==
    IF o = <<>> THEN ts
    ELSE LET name == Head(o)
             result == res[name]
         IN tradeLoop(IF result.action = "HOLD" THEN ts
                      ELSE tradeLoopBody(ts, name, result.marketSlug[1], result.action,
                                         result.score, 100, 100, champ, ensemble, prices,
                                         clock),
                      Tail(o), res, champ, ensemble, prices, clock)

InitOrder ==
    /\ trades = <<>>
    /\ champion = <<"baseline">>
    /\ challengerWins = EmptyWins
    /\ promotionHistory = <<>>
    /\ now = 1
    /\ useEnsemble = FALSE
    /\ pc = "idle"
    /\ idx = 1
    /\ marketCache = SeedPrices
    /\ cycles = 0
    /\ lastRisk = NoRisk
    /\ lastCompare = NoCompare
    /\ streak = [s \in StrategySet |-> 0]
    /\ seeded = 0
    /\ orders = <<>>
    /\ lastExec = NoExec
    /\ threw = {}
    /\ stats = NoStats
    /\ allocations = NoStats
    /\ ledgerFile = NoFile
    /\ arenaFile = NoFile
    /\ ensembleFile = NoFile
    /\ procs = NoProcs
    /\ targetMarkets = NoTargets
    /\ results = NoResults
    /\ order = NoOrder

\* runCompetition up to the trade loop: the sweep and the analyses.  `seeded`
\* keeps the number of trades the cycle started on.
OrderAnalyse ==
    /\ pc = "idle"
    /\ cycles < OrderMaxCycles
    /\ now' = now + COOLDOWN_MINUTES
    /\ trades' = checkTakeProfits(trades, marketCache)
    /\ seeded' = Len(trades)
    /\ results' \in OrderResults
    /\ order' \in Orders
    /\ pc' = "trade"
    /\ idx' = 1
    /\ cycles' = cycles + 1
    /\ lastRisk' = NoRisk
    /\ lastCompare' = NoCompare
    /\ UNCHANGED <<champion, challengerWins, promotionHistory, useEnsemble, marketCache,
                   streak, execVars, allocVars, cronVars, targetMarkets>>

\* One iteration of the trade loop, on the entry the order puts at idx.
OrderTradeStep ==
    /\ pc = "trade"
    /\ trades' = tradeLoop(trades, <<order[idx]>>, results, champion, useEnsemble,
                           marketCache, now)
    /\ pc' = IF idx = Len(order) THEN "compare" ELSE "trade"
    /\ idx' = idx + 1
    /\ UNCHANGED <<champion, challengerWins, promotionHistory, now, useEnsemble,
                   marketCache, cycles, lastRisk, lastCompare, streak, seeded,
                   execVars, allocVars, cronVars, routeVars>>

NextOrder ==
    \/ OrderAnalyse
    \/ OrderTradeStep
    \/ CompareStep
    \/ CloseMarket

SpecOrder == InitOrder /\ [][NextOrder]_vars

----------------------------------------------------------------------------
(* JavaScript Numbers: the arithmetic of paper-trader.js 106-109, 217-219    *)
(* and 257-264 and of arena.js 432-459 is IEEE-754 binary64, every           *)
(* operation rounded to nearest, ties to even, at 53 significant bits.       *)

LIMB_BITS == 13
LIMB == 8192
MANTISSA_BITS == 53

SetMax(S) == CHOOSE v \in S : \A w \in S : w <= v

\* Naturals of any size: sequences of base-LIMB digits, least significant first,
\* without leading zero digits.  The operators keep the nesting of their
\* evaluation shallow: carries are looked ahead rather than propagated.
bnTrim(a) ==
    LET nz == {i \in 1..Len(a) : a[i] # 0}
    IN IF nz = {} THEN <<>> ELSE SubSeq(a, 1, SetMax(nz))

bnOfNat(n) == bnTrim(<<n % LIMB, (n \div LIMB) % LIMB, n \div (LIMB * LIMB)>>)

bnDigit(a, i) == IF i >= 1 /\ i <= Len(a) THEN a[i] ELSE 0

bnAdd(a, b) ==
    LET n == IF Len(a) >= Len(b) THEN Len(a) ELSE Len(b)
        s == [i \in 1..n |-> bnDigit(a, i) + bnDigit(b, i)]
        carry(i) == IF \E j \in 1..(i - 1) :
                          s[j] >= LIMB /\ \A k \in (j + 1)..(i - 1) : s[k] = LIMB - 1
                    THEN 1 ELSE 0
    IN bnTrim([i \in 1..(n + 1) |->
                  IF i <= n THEN (s[i] + carry(i)) % LIMB ELSE carry(i)])

\* a - b for a >= b.
bnSub(a, b) ==
    LET d == [i \in 1..Len(a) |-> a[i] - bnDigit(b, i)]
        borrow(i) == IF \E j \in 1..(i - 1) :
                           d[j] < 0 /\ \A k \in (j + 1)..(i - 1) : d[k] = 0
                     THEN 1 ELSE 0
    IN bnTrim([i \in 1..Len(a) |-> (d[i] + LIMB - borrow(i)) % LIMB])

bnCmp(a, b) ==
    IF Len(a) # Len(b)
    THEN IF Len(a) > Len(b) THEN 1 ELSE -1
    ELSE LET diff == {i \in 1..Len(a) : a[i] # b[i]}
         IN IF diff = {} THEN 0
            ELSE IF a[SetMax(diff)] > b[SetMax(diff)] THEN 1 ELSE -1

\* a * t for a digit t.
bnMulSmall(a, t) ==
    bnAdd([i \in 1..Len(a) |-> (a[i] * t) % LIMB],
          <<0>> \o [i \in 1..Len(a) |-> (a[i] * t) \div LIMB])

bnShlLimbs(a, k) == IF a = <<>> THEN <<>> ELSE [i \in 1..k |-> 0] \o a

\* a * b, for b of at most five digits (a mantissa).
bnMul(a, b) ==
    LET c == [k \in 1..(Len(a) + 4) |->
                 bnDigit(a, k) * bnDigit(b, 1) + bnDigit(a, k - 1) * bnDigit(b, 2)
                 + bnDigit(a, k - 2) * bnDigit(b, 3) + bnDigit(a, k - 3) * bnDigit(b, 4)
                 + bnDigit(a, k - 4) * bnDigit(b, 5)]
        lo  == [k \in DOMAIN c |-> c[k] % LIMB]
        mid == [k \in DOMAIN c |-> (c[k] \div LIMB) % LIMB]
        hi  == [k \in DOMAIN c |-> c[k] \div (LIMB * LIMB)]
    IN bnAdd(bnAdd(lo, <<0>> \o mid), <<0, 0>> \o hi)

\* a * 2^k
bnShl(a, k) == bnMulSmall(bnShlLimbs(a, k \div LIMB_BITS), 2 ^ (k % LIMB_BITS))

\* floor(a / 2^k)
bnShr(a, k) ==
    LET drop == k \div LIMB_BITS
        b    == k % LIMB_BITS
        n    == Len(a) - drop
    IN IF n <= 0 THEN <<>>
       ELSE bnTrim([i \in 1..n |->
                (a[drop + i] \div (2 ^ b))
                + (bnDigit(a, drop + i + 1) % (2 ^ b)) * (2 ^ (LIMB_BITS - b))])

digitBits(t) == CHOOSE n \in 1..LIMB_BITS : 2 ^ (n - 1) <= t /\ t < 2 ^ n

bnBitLen(a) ==
    IF a = <<>> THEN 0 ELSE (Len(a) - 1) * LIMB_BITS + digitBits(a[Len(a)])

\* bit j of a, bit 0 the least significant
bnBit(a, j) == (bnDigit(a, j \div LIMB_BITS + 1) \div (2 ^ (j % LIMB_BITS))) % 2

\* a mod 2^k = 0
bnLowZero(a, k) ==
    /\ \A i \in 1..(k \div LIMB_BITS) : bnDigit(a, i) = 0
    /\ bnDigit(a, k \div LIMB_BITS + 1) % (2 ^ (k % LIMB_BITS)) = 0

\* The largest digit t with t * d <= r, for r < LIMB * d and d with a leading
\* digit of LIMB_BITS bits: the estimate from the leading digits is at most
\* two too large.
bnQuotDigit(r, d) ==
    LET lead == bnDigit(r, Len(d) + 1) * LIMB + bnDigit(r, Len(d))
        qhat == IF lead \div d[Len(d)] >= LIMB THEN LIMB - 1 ELSE lead \div d[Len(d)]
    IN SetMax({t \in {0, qhat - 2, qhat - 1, qhat} :
                  t >= 0 /\ bnCmp(bnMulSmall(d, t), r) <= 0})

\* In the operators below, CHOOSE r \in {F(v) : v \in {x}} : TRUE is F(x)
\* with x evaluated before F is entered: it keeps the nesting of the
\* evaluation shallow.

\* One step of the long division: the digit n[i] is brought down to the
\* remainder of the digits above it.
bnDivStep(up, digit, d) ==
    LET r == bnTrim(<<digit>> \o up.rem)
        t == bnQuotDigit(r, d)
    IN [quot |-> <<t>> \o up.quot, rem |-> bnSub(r, bnMulSmall(d, t))]

\* long division, from the most significant digit of n down to digit i: the
\* leading Len(d) - 1 digits of n are the first remainder.
RECURSIVE bnDivFrom(_, _, _)
bnDivFrom(n, d, i) ==
    IF i > Len(n) - Len(d) + 1
    THEN [quot |-> <<>>, rem |-> bnTrim(SubSeq(n, i, Len(n)))]
    ELSE CHOOSE r \in {bnDivStep(up, n[i], d) : up \in {bnDivFrom(n, d, i + 1)}} : TRUE

\* floor(n / d), and whether the division is exact
bnDivShifted(n, d) ==
    LET r == bnDivFrom(n, d, 1) IN [quot |-> bnTrim(r.quot), exact |-> r.rem = <<>>]

bnDiv(n, d) ==
    CHOOSE r \in {bnDivShifted(v, w) : v \in {bnShl(n, LIMB_BITS - digitBits(d[Len(d)]))},
                                       w \in {bnShl(d, LIMB_BITS - digitBits(d[Len(d)]))}} : TRUE

\* A Number: a finite binary64 value (-1)^neg * m * 2^e, kept with m odd, so
\* that equal values are equal records.  The amounts of the ledger are far
\* from the ends of the exponent range: no overflow, no subnormals.
Zero == [neg |-> FALSE, m |-> <<>>, e |-> 0]

fnorm(neg, m, e) ==
    IF m = <<>> THEN Zero
    ELSE LET tz == SetMax({k \in 0..bnBitLen(m) : bnLowZero(m, k)})
         IN [neg |-> neg, m |-> bnShr(m, tz), e |-> e + tz]

\* x = (-1)^neg * m * 2^e rounded to nearest, ties to even, at 53 significant bits
roundValue(x) ==
    LET k == bnBitLen(x.m) - MANTISSA_BITS
    IN IF k <= 0 THEN fnorm(x.neg, x.m, x.e)
       ELSE LET q      == bnShr(x.m, k)
                half   == bnBit(x.m, k - 1) = 1
                sticky == ~bnLowZero(x.m, k - 1)
                odd    == bnBit(q, 0) = 1
                up     == half /\ (sticky \/ odd)
            IN fnorm(x.neg, IF up THEN bnAdd(q, <<1>>) ELSE q, x.e + k)

round53(neg, m, e) ==
    CHOOSE r \in {roundValue(v) : v \in {[neg |-> neg, m |-> m, e |-> e]}} : TRUE

fromInt(n) == fnorm(n < 0, bnOfNat(IF n < 0 THEN -n ELSE n), 0)

product(a, b) == round53(a.neg # b.neg, bnMul(a.m, b.m), a.e + b.e)

\* a * b
fmul(x, y) == CHOOSE r \in {product(v, w) : v \in {x}, w \in {y}} : TRUE

\* The quotient's first 55 bits and more, with a last bit set when the
\* division is inexact: enough to round.
quotient(a, b) ==
    IF a.m = <<>> THEN Zero
    ELSE LET need == MANTISSA_BITS + 2 + bnBitLen(b.m) - bnBitLen(a.m)
             k    == IF need > 0 THEN need ELSE 0
         IN CHOOSE r \in {round53(a.neg # b.neg,
                                  bnAdd(bnShl(dm.quot, 1), IF dm.exact THEN <<>> ELSE <<1>>),
                                  a.e - b.e - k - 1) :
                              dm \in {bnDiv(bnShl(a.m, k), b.m)}} : TRUE

\* a / b, for b # 0
fdiv(x, y) == CHOOSE r \in {quotient(v, w) : v \in {x}, w \in {y}} : TRUE

\* the exact sum, before rounding
exactSum(a, b) ==
    LET e  == IF a.e < b.e THEN a.e ELSE b.e
        am == bnShl(a.m, a.e - e)
        bm == bnShl(b.m, b.e - e)
    IN IF a.neg = b.neg THEN [neg |-> a.neg, m |-> bnAdd(am, bm), e |-> e]
       ELSE IF bnCmp(am, bm) >= 0 THEN [neg |-> a.neg, m |-> bnSub(am, bm), e |-> e]
       ELSE [neg |-> b.neg, m |-> bnSub(bm, am), e |-> e]

sum(a, b) == CHOOSE r \in {roundValue(v) : v \in {exactSum(a, b)}} : TRUE

\* a + b
fadd(x, y) == CHOOSE r \in {sum(v, w) : v \in {x}, w \in {y}} : TRUE

negated(a) == IF a.m = <<>> THEN a ELSE [a EXCEPT !.neg = ~a.neg]

\* a - b
fsub(x, y) == CHOOSE r \in {sum(v, negated(w)) : v \in {x}, w \in {y}} : TRUE

\* -1, 0, 1
fsign(a) == IF a.m = <<>> THEN 0 ELSE IF a.neg THEN -1 ELSE 1

\* the sign of a - b
fcmp(x, y) == fsign(fsub(x, y))

\* The Number of a ledger amount (cents) or price (percent): h / 100.
numberOf(h) == fdiv(fromInt(h), fromInt(100))

\* shares = size / entryPrice; value = shares * price; pnl = value - size
pnlNumber(size, entryPrice, price) ==
    LET shares == fdiv(numberOf(size), numberOf(entryPrice))
        currentValue == fmul(shares, numberOf(price))
    IN fsub(currentValue, numberOf(size))

\* trade.pnl || 0 of a closed trade: the Number closeMarket or the take-profit
\* sweep computed from the trade's size, entry price and exit price.
recordedPnlNumber(t) ==
    IF t.pnl = Null THEN Zero ELSE pnlNumber(t.size, t.entryPrice, t.exitPrice[1])

\* calculateMtmPnL(trade, currentPrices), in Numbers.
calculateMtmPnLNumber(t, currentPrices) ==
    IF t.status = "closed"
    THEN recordedPnlNumber(t)
    ELSE LET given == IF currentPrices = Null THEN 0
                      ELSE sidePrice(t.action, currentPrices[1])
             currentPrice == IF given = 0 THEN t.entryPrice ELSE given
         IN pnlNumber(t.size, t.entryPrice, currentPrice)

\* The sum a loop accumulates from 0 over the Numbers pnls[i], i in the index
\* set, in ledger order up to index n.
RECURSIVE sumNumber(_, _, _)
sumNumber(pnls, indices, n) ==
    IF n = 0 THEN Zero
    ELSE IF n \in indices THEN fadd(sumNumber(pnls, indices, n - 1), pnls[n])
    ELSE sumNumber(pnls, indices, n - 1)

\* calculateMtmPnL of every trade of the ledger, in order.
mtmNumbers(ts, currentPrices) ==
    SubSeq([i \in 1..Len(ts) |-> calculateMtmPnLNumber(ts[i], currentPrices)], 1, Len(ts))

\* The entry getPerformanceWindow's loop leaves under the key k; pnls are the
\* mark-to-market Numbers of the ledger's trades.
perfEntryNumber(ts, pnls, k, hours, clock) ==
    LET mine   == {i \in 1..Len(ts) : /\ ts[i].timestamp >= clock - hours * 60
                                      /\ stratKey(ts[i].strategy) = k}
        closed == {i \in mine : ts[i].status = "closed"}
    IN [trades    |-> Cardinality(mine),
        wins      |-> Cardinality({i \in closed : fsign(pnls[i]) > 0}),
        pnl       |-> sumNumber(pnls, mine, Len(ts)),
        openPnL   |-> sumNumber(pnls, mine \ closed, Len(ts)),
        closedPnL |-> sumNumber(pnls, closed, Len(ts))]

perfEntriesNumber(ts, pnls, hours, clock) ==
    LET keys == perfKeys(windowTrades(ts, hours, clock), {})
    IN SubSeq([i \in 1..Len(keys) |-> <<keys[i], perfEntryNumber(ts, pnls, keys[i], hours, clock)>>],
              1, Len(keys))

\* getPerformanceWindow(hours, currentPrices), in Numbers: the entries of the
\* result, in insertion order, as a sequence of <<key, stats>>.
getPerformanceWindowNumber(ts, hours, currentPrices, clock) ==
    CHOOSE r \in {perfEntriesNumber(ts, pnls, hours, clock) :
                     pnls \in {mtmNumbers(ts, currentPrices)}} : TRUE

\* Object.entries(performances).sort((a, b) => b[1].pnl - a[1].pnl), in
\* Numbers: a stable sort, entry i comes after the entries with a larger pnl
\* and after the earlier entries with an equal pnl.
sortByPnlNumber(entries) ==
    LET before(i) == {j \in 1..Len(entries) :
                         \/ fcmp(entries[j][2].pnl, entries[i][2].pnl) > 0
                         \/ j < i /\ fcmp(entries[j][2].pnl, entries[i][2].pnl) = 0}
    IN SubSeq([r \in 1..Len(entries) |->
                  entries[CHOOSE i \in 1..Len(entries) : Cardinality(before(i)) = r - 1]],
              1, Len(entries))

\* performances[this.state.champion]?.pnl || 0
championPnLNumber(entries, champ) ==
    IF \E i \in 1..Len(entries) : entries[i][1] = champ
    THEN (LET i == CHOOSE j \in 1..Len(entries) : entries[j][1] = champ IN entries[i][2].pnl)
    ELSE Zero

\* The win test of compareAndPromote's loop, in Numbers.
isWinNumber(name, pnl, champ, championPnL, bestChallengerPnL) ==
    /\ name # champ
    /\ fcmp(pnl, bestChallengerPnL) > 0
    /\ fsign(pnl) > 0
    /\ fcmp(fsub(pnl, championPnL), numberOf(MIN_EDGE_FOR_WIN)) >= 0

\* The loop over `sorted` from entry i on: bestChallenger and its pnl so far.
RECURSIVE scanChallengersNumber(_, _, _, _, _)
scanChallengersNumber(sorted, champ, championPnL, i, best) ==
    IF i > Len(sorted) THEN best[1]
    ELSE CHOOSE r \in {scanChallengersNumber(sorted, champ, championPnL, i + 1, b) :
                          b \in {IF isWinNumber(sorted[i][1], sorted[i][2].pnl, champ,
                                                championPnL, best[2])
                                 THEN <<sorted[i][1], sorted[i][2].pnl>>
                                 ELSE best}} : TRUE

\* The bestChallenger of a comparison on the given performances.
bestChallengerNumber(performances, champ) ==
    CHOOSE r \in {scanChallengersNumber(sorted, champ, championPnL, 1, <<None, championPnL>>) :
                     sorted \in {sortByPnlNumber(performances)},
                     championPnL \in {championPnLNumber(performances, champ)}} : TRUE

----------------------------------------------------------------------------
(* SpecMtm: arena cycles and market closes as in Spec, with up prices of     *)
(* 0.40 and 0.50 and the comparison of compareAndPromote computed in         *)
(* Numbers.                                                                  *)

MtmMaxTrades == 2
MtmMaxCycles == 2
MtmUpPrices == {40, 50}
MtmPriceMaps == {[m \in Markets |-> IF m = DefaultMarket THEN u ELSE 50] : u \in MtmUpPrices}

MtmStartCycle == StartCycleWith({COOLDOWN_MINUTES}, MtmPriceMaps, MtmMaxCycles)
MtmTradeStep == TradeStepWith(ArenaSignals(Strategies[idx]), Scores, Confidences, MtmMaxTrades)

\* The end of runCompetition: compareAndPromote, in Numbers.
MtmCompareStep ==
    /\ pc = "compare"
    /\ \E performances \in {getPerformanceWindowNumber(trades, COMPARISON_WINDOW_HOURS, Null, now)} :
       LET r == afterComparison(bestChallengerNumber(performances, champion), champion,
                                challengerWins, promotionHistory, now)
       IN /\ champion' = r.champion
          /\ challengerWins' = r.challengerWins
          /\ promotionHistory' = r.promotionHistory
          /\ lastCompare' = [done |-> TRUE, winner |-> r.winner,
                             champion |-> champion, challengerWins |-> challengerWins,
                             promotionHistory |-> promotionHistory,
                             performances |-> performances,
                             window |-> windowTrades(trades, COMPARISON_WINDOW_HOURS, now)]
          /\ streak' = [s \in StrategySet |-> IF s = r.winner THEN streak[s] + 1 ELSE 0]
    /\ pc' = "idle"
    /\ idx' = 1
    /\ lastRisk' = NoRisk
    /\ lastExec' = NoExec
    /\ UNCHANGED <<trades, now, useEnsemble, marketCache, cycles, seeded,
                   orders, threw, allocVars, cronVars, routeVars>>

NextMtm ==
    \/ MtmStartCycle
    \/ HoldStep
    \/ MtmTradeStep
    \/ MtmCompareStep
    \/ CloseMarket

SpecMtm == Init /\ [][NextMtm]_vars

----------------------------------------------------------------------------
(* SpecNorm: the ledger with trades of one strategy logged under both of its *)
(* ids: the arena logs whale_copy, the trade command logs                    *)
(* creative:whale_copy.  Markets are closed and take-profit sweeps run, in   *)
(* any order.                                                                *)

NormMaxTrades == 2

NormStrategies == {<<"baseline">>, <<"whale_copy">>, <<"creative", "whale_copy">>}
NormSignals == {<<"btc", "BUY_UP">>}

\* logTrade(params)
NormLogTrade ==
    /\ pc = "idle"
    /\ Len(trades) < NormMaxTrades
    /\ \E strategy \in NormStrategies, sig \in NormSignals,
          entryPrice \in LedgerEntryPrices, size \in LedgerSizes :
        trades' = logTrade(trades, strategy, strategy = <<"baseline">>, sig[1], sig[2],
                           entryPrice, size, now)
    /\ UNCHANGED <<champion, challengerWins, promotionHistory, now, useEnsemble, pc, idx,
                   marketCache, cycles, lastRisk, lastCompare, streak, seeded,
                   execVars, allocVars, cronVars, routeVars>>

NextNorm ==
    \/ NormLogTrade
    \/ CloseMarket
    \/ LedgerTakeProfits

SpecNorm == InitLedger /\ [][NextNorm]_vars

----------------------------------------------------------------------------
(* SpecWindow: the ledger over days.  Between two commands the clock moves   *)
(* on by a minute or by 48 hours, so that trades are inside the comparison  *)
(* window, on its edge and behind it.                                        *)

WindowMaxTrades == 2
WindowMaxTicks == 3

WindowStrategies == {<<"baseline">>, <<"whale_copy">>}
WindowTicks == {1, COMPARISON_WINDOW_HOURS * 60}

\* logTrade(params)
WindowLogTrade ==
    /\ pc = "idle"
    /\ Len(trades) < WindowMaxTrades
    /\ \E strategy \in WindowStrategies, entryPrice \in LedgerEntryPrices,
          size \in LedgerSizes :
        trades' = logTrade(trades, strategy, strategy = <<"baseline">>, "btc", "BUY_UP",
                           entryPrice, size, now)
    /\ UNCHANGED <<champion, challengerWins, promotionHistory, now, useEnsemble, pc, idx,
                   marketCache, cycles, lastRisk, lastCompare, streak, seeded,
                   execVars, allocVars, cronVars, routeVars>>

\* Date.now() moves on; cycles counts the moves.
WindowClockTick ==
    /\ pc = "idle"
    /\ cycles < WindowMaxTicks
    /\ \E d \in WindowTicks : now' = now + d
    /\ cycles' = cycles + 1
    /\ UNCHANGED <<trades, champion, challengerWins, promotionHistory, useEnsemble, pc, idx,
                   marketCache, lastRisk, lastCompare, streak, seeded,
                   execVars, allocVars, cronVars, routeVars>>

NextWindow ==
    \/ WindowLogTrade
    \/ WindowClockTick
    \/ CloseMarket

SpecWindow == InitLedger /\ [][NextWindow]_vars

----------------------------------------------------------------------------
(* SpecMark: the ledger marked to market.  Trades are logged and closed, and *)
(* updateMarkToMarket is called with the prices of a market that trades     *)
(* (up 0.60, down 0.40) or that has resolved (up 1 and down 0, or up 0 and   *)
(* down 1).                                                                  *)

MarkUpPrices == {0, 60, 100}

\* updateMarkToMarket(market, currentPrices)
MarkUpdate ==
    /\ pc = "idle"
    /\ \E market \in Markets, up \in MarkUpPrices :
        trades' = updateMarkToMarket(trades, market, <<up>>)
    /\ UNCHANGED <<champion, challengerWins, promotionHistory, now, useEnsemble, pc, idx,
                   marketCache, cycles, lastRisk, lastCompare, streak, seeded,
                   execVars, allocVars, cronVars, routeVars>>

NextMark ==
    \/ LedgerLogTrade
    \/ CloseMarket
    \/ MarkUpdate

SpecMark == InitLedger /\ [][NextMark]_vars

----------------------------------------------------------------------------
(* SpecRegistry: arena cycles on a ledger the trade command writes to as     *)
(* well.  The trade command logs the paper trade of the creative strategy   *)
(* under its id creative:contrarian, a variant loadStrategies does not      *)
(* register; markets are closed between the cycles.                          *)

RegistryMaxTrades == 2
RegistryMaxCycles == 3

\* logCreativePaperTrades: this.paper.logTrade({strategy: creativeResult.strategy, ...})
RegistryLogCreative ==
    /\ pc = "idle"
    /\ Len(trades) < RegistryMaxTrades
    /\ \E entryPrice \in LedgerEntryPrices, size \in LedgerSizes :
        trades' = logTrade(trades, <<"creative", "contrarian">>, FALSE, "btc", "BUY_UP",
                           entryPrice, size, now)
    /\ UNCHANGED <<champion, challengerWins, promotionHistory, now, useEnsemble, pc, idx,
                   marketCache, cycles, lastRisk, lastCompare, streak, seeded,
                   execVars, allocVars, cronVars, routeVars>>

RegistryStartCycle == StartCycleWith({COOLDOWN_MINUTES}, {SeedPrices}, RegistryMaxCycles)
RegistryTradeStep ==
    TradeStepWith(ArenaSignals(Strategies[idx]), Scores, Confidences, RegistryMaxTrades)

NextRegistry ==
    \/ RegistryLogCreative
    \/ RegistryStartCycle
    \/ HoldStep
    \/ RegistryTradeStep
    \/ CompareStep
    \/ CloseMarket

SpecRegistry == InitLedger /\ [][NextRegistry]_vars

----------------------------------------------------------------------------
(* Properties of the arena (Spec) *)

\* The strategies with a nonzero consecutive-win counter.
nonzeroCounters(cw) == {s \in DOMAIN cw : cw[s] # 0}

\* C1: a challenger's counter is the number of cycles it has won in a row, it
\* stays below 3 while the challenger is not champion, and a cycle changes the
\* champion exactly when its winner has then won 3 cycles in a row: never
\* after 1 or 2 consecutive wins, and a cycle the challenger does not win puts
\* its count back to 0.
C1_PromotionAtThirdConsecutiveWin ==
    /\ \A s \in StrategySet \ {champion} :
          challengerWinsOf(challengerWins, s) = streak[s] /\ streak[s] < 3
    /\ lastCompare.done =>
          ((champion # lastCompare.champion)
              <=> (lastCompare.winner # None /\ streak[lastCompare.winner] = 3))

\* A cycle has just promoted its winner, on its third win in a row.
C1_Witness ==
    /\ lastCompare.done
    /\ lastCompare.winner = champion
    /\ champion # lastCompare.champion
    /\ streak[champion] = 3
    /\ challengerWinsOf(lastCompare.challengerWins, champion) = 2

\* C2: after a cycle in which compareAndPromote finds no win candidate,
\* challengerWins is empty whatever it held before, and the champion and the
\* promotion history are those of before the cycle.
C2_NoWinnerResetsCounters ==
    (lastCompare.done /\ lastCompare.winner = None) =>
        /\ challengerWins = EmptyWins
        /\ \A s \in StrategySet : challengerWinsOf(challengerWins, s) = 0
        /\ champion = lastCompare.champion
        /\ promotionHistory = lastCompare.promotionHistory

\* A cycle without winner has erased a challenger's nonzero counter.
C2_Witness ==
    /\ lastCompare.done
    /\ lastCompare.winner = None
    /\ nonzeroCounters(lastCompare.challengerWins) # {}

\* C3: at most one strategy has a nonzero counter and the champion has none;
\* a cycle a challenger wins without being promoted leaves its counter one
\* higher and every other counter at zero.
C3_AtMostOneCounter ==
    /\ Cardinality(nonzeroCounters(challengerWins)) <= 1
    /\ challengerWinsOf(challengerWins, champion) = 0
    /\ (lastCompare.done /\ lastCompare.winner # None /\ champion = lastCompare.champion) =>
          /\ challengerWinsOf(challengerWins, lastCompare.winner)
                = challengerWinsOf(lastCompare.challengerWins, lastCompare.winner) + 1
          /\ \A s \in (DOMAIN challengerWins \cup StrategySet) \ {lastCompare.winner} :
                challengerWinsOf(challengerWins, s) = 0

\* A challenger has won the cycle while another one held a nonzero counter.
C3_Witness ==
    /\ lastCompare.done
    /\ lastCompare.winner # None
    /\ nonzeroCounters(lastCompare.challengerWins) \ {lastCompare.winner} # {}
    /\ nonzeroCounters(challengerWins) = {lastCompare.winner}

\* The PnL of strategy n in the performances perf, a sequence of <<key, stats>>.
pnlOf(perf, n) == perf[CHOOSE i \in 1..Len(perf) : perf[i][1] = n][2].pnl

\* The champion's PnL, 0 without a trade of the champion in the window.
championPnlOf(perf, champ) ==
    IF \E i \in 1..Len(perf) : perf[i][1] = champ THEN pnlOf(perf, champ) ELSE 0

\* The win candidates: pnl > championPnl, pnl > 0 and pnl - championPnl >= 1.00.
winCandidates(perf, champ) ==
    {n \in {perf[i][1] : i \in 1..Len(perf)} \ {champ} :
        /\ pnlOf(perf, n) > championPnlOf(perf, champ)
        /\ pnlOf(perf, n) > 0
        /\ pnlOf(perf, n) - championPnlOf(perf, champ) >= 100}

\* winner is a win candidate of the highest PnL, or None without candidate.
isBestCandidate(perf, champ, winner) ==
    IF winCandidates(perf, champ) = {}
    THEN winner = None
    ELSE /\ winner \in winCandidates(perf, champ)
         /\ \A n \in winCandidates(perf, champ) : pnlOf(perf, n) <= pnlOf(perf, winner)

IsPrefix(s, t) == Len(s) <= Len(t) /\ SubSeq(t, 1, Len(s)) = s

\* What C5 asks of a step.
C5_Step ==
    /\ IsPrefix(promotionHistory, promotionHistory')
    /\ IF /\ pc = "compare"
          /\ lastCompare'.winner # None
          /\ challengerWinsOf(challengerWins, lastCompare'.winner) + 1 >= 3
       THEN /\ Len(promotionHistory') = Len(promotionHistory) + 1
            /\ promotionHistory'[Len(promotionHistory')].oldChampion = champion
            /\ promotionHistory'[Len(promotionHistory')].newChampion = lastCompare'.winner
            /\ champion' = lastCompare'.winner
            /\ \A s \in DOMAIN challengerWins' \cup StrategySet : challengerWinsOf(challengerWins', s) = 0
       ELSE /\ champion' = champion
            /\ promotionHistory' = promotionHistory

\* C5: a promotion (the winner's third win in a row) appends exactly one
\* history entry, from the champion of before the cycle to the winner, makes
\* the winner champion and leaves every counter at zero; every other step
\* leaves champion and history unchanged; the history only grows at its end.
C5_PromotionFrame == [][C5_Step]_vars

\* A promotion has been recorded: one history entry, naming the old and the
\* new champion.
C5_Witness ==
    /\ lastCompare.done
    /\ Len(promotionHistory) = Len(lastCompare.promotionHistory) + 1
    /\ promotionHistory[Len(promotionHistory)].oldChampion = lastCompare.champion
    /\ promotionHistory[Len(promotionHistory)].newChampion = champion
    /\ champion # lastCompare.champion

\* The favorable price move of trade t at the up prices `prices` exceeds 30%
\* of its entry price.
overTakeProfit(t, prices) ==
    /\ t.market \in DOMAIN prices
    /\ LET currentPrice == IF t.action = "BUY_UP" THEN prices[t.market]
                           ELSE 100 - prices[t.market]
       IN (currentPrice - t.entryPrice) * 100 > 30 * t.entryPrice

\* Trade t is closed by take-profit at the price its side has in `prices`.
tookProfitAt(t, prices) ==
    LET currentPrice == IF t.action = "BUY_UP" THEN prices[t.market]
                        ELSE 100 - prices[t.market]
    IN /\ t.status = "closed"
       /\ t.closeReason = <<"TAKE_PROFIT">>
       /\ t.exitPrice = <<currentPrice>>
       /\ t.pnl = <<(t.size * currentPrice) \div t.entryPrice - t.size>>

\* What C17 asks of a step.
C17_Step ==
    /\ (pc = "idle" /\ cycles' = cycles + 1) =>
          \A i \in 1..Len(trades) :
              (trades[i].status = "open" /\ overTakeProfit(trades[i], marketCache'))
                  => tookProfitAt(trades'[i], marketCache')
    /\ pc' \in {"trade", "compare"} =>
          \A i \in 1..Len(trades') :
              trades'[i].status = "open" => ~overTakeProfit(trades'[i], marketCache')
    /\ pc = "compare" =>
          /\ lastCompare'.performances
                = getPerformanceWindow(trades, COMPARISON_WINDOW_HOURS, Null, now)
          /\ \A i \in 1..Len(trades) :
                trades[i].status = "open" => ~overTakeProfit(trades[i], marketCache)

\* C17: the step that starts a cycle closes every open trade on a priced
\* market whose favorable move exceeds the threshold, at the current price,
\* with closeReason TAKE_PROFIT and pnl = size / entryPrice * currentPrice -
\* size; while the strategies trade and when compareAndPromote reads the
\* ledger, no open trade on a priced market is over the threshold.
C17_TakeProfitBeforeCompare == [][C17_Step]_vars

\* compareAndPromote has read a ledger in which the cycle's sweep had closed a
\* BUY_DOWN trade of an earlier cycle at twice its entry price.
C17_Witness ==
    /\ lastCompare.done
    /\ \E i \in 1..Len(trades) :
          /\ trades[i].action = "BUY_DOWN"
          /\ trades[i].timestamp < now
          /\ tookProfitAt(trades[i], marketCache)
          /\ trades[i].pnl = <<trades[i].size>>

----------------------------------------------------------------------------
(* Properties of the risk manager (SpecRisk) *)

\* The checks of the risk manager, stated on what a validation read: the
\* market is at its 20% cap, the strategy's most recent trade is younger than
\* 10 minutes, the triple has an open trade, the room left under the cap.
atCap(v) == v.exposure * 100 >= 20 * v.portfolio
cooling(v) == \E t \in v.stamps : v.clock - t < 10
stacking(v) == <<v.strategy, v.market, v.action>> \in v.openTriples
room(v) == (20 * v.portfolio) \div 100 - v.exposure

\* C6: validate reports the first failing check in the order exposure,
\* cooldown, anti-duplication, sizing, with one rule tag per rejection: a
\* proposal over the cap is rejected MAX_EXPOSURE even within the cooldown.
C6_FirstFailingCheckReported ==
    lastRisk.called =>
        /\ lastRisk.result.valid <=> lastRisk.result.rule = ""
        /\ lastRisk.result.rule \in {"", "MAX_EXPOSURE", "COOLDOWN", "NO_STACKING"}
        /\ atCap(lastRisk) => lastRisk.result.rule = "MAX_EXPOSURE"
        /\ (~atCap(lastRisk) /\ cooling(lastRisk)) => lastRisk.result.rule = "COOLDOWN"
        /\ (~atCap(lastRisk) /\ ~cooling(lastRisk) /\ stacking(lastRisk))
              => lastRisk.result.rule = "NO_STACKING"
        /\ (~atCap(lastRisk) /\ ~cooling(lastRisk) /\ ~stacking(lastRisk))
              => lastRisk.result.rule \in {"", "MAX_EXPOSURE"}

\* A proposal over the cap and within the cooldown was rejected MAX_EXPOSURE.
C6_Witness ==
    /\ lastRisk.called
    /\ atCap(lastRisk)
    /\ cooling(lastRisk)
    /\ lastRisk.result.rule = "MAX_EXPOSURE"

C8_NoStacking ==
    /\ lastRisk.called =>
          /\ lastRisk.result.valid => ~stacking(lastRisk)
          /\ (stacking(lastRisk) /\ ~atCap(lastRisk) /\ ~cooling(lastRisk))
                => lastRisk.result.rule = "NO_STACKING"
    /\ \A i, j \in 1..Len(trades) :
          (/\ i < j
           /\ trades[i].status = "open" /\ trades[j].status = "open"
           /\ trades[i].strategy = trades[j].strategy
           /\ trades[i].market = trades[j].market)
              => trades[i].action # trades[j].action

\* A proposal for a triple with an open trade was rejected NO_STACKING, the
\* strategy being out of its cooldown.
C8_Witness ==
    /\ lastRisk.called
    /\ stacking(lastRisk)
    /\ lastRisk.stamps # {}
    /\ ~cooling(lastRisk)
    /\ lastRisk.result.rule = "NO_STACKING"

\* C9: no proposal is accepted from a strategy whose most recent trade is
\* younger than 10 minutes, it is rejected COOLDOWN when the exposure check
\* passes, and any two ledger trades of a strategy are 10 minutes apart or more.
C9_Cooldown ==
    /\ lastRisk.called =>
          /\ lastRisk.result.valid => ~cooling(lastRisk)
          /\ (cooling(lastRisk) /\ ~atCap(lastRisk)) => lastRisk.result.rule = "COOLDOWN"
    /\ \A i, j \in 1..Len(trades) :
          (i < j /\ trades[i].strategy = trades[j].strategy)
              => trades[j].timestamp - trades[i].timestamp >= 10

\* A proposal of a strategy whose only trades are closed was rejected
\* COOLDOWN, five minutes after its last trade.
C9_Witness ==
    /\ lastRisk.called
    /\ cooling(lastRisk)
    /\ ~stacking(lastRisk)
    /\ lastRisk.result.rule = "COOLDOWN"
    /\ \A i \in 1..Len(trades) :
          trades[i].strategy = lastRisk.strategy => trades[i].status = "closed"

----------------------------------------------------------------------------
(* Properties of the execution branch (SpecExec) *)

\* The last trade of the ledger is the one the last iteration logged.
loggedByLastExec(isReal) ==
    /\ Len(trades) = lastExec.before + 1
    /\ trades[Len(trades)].strategy = lastExec.strategy
    /\ trades[Len(trades)].isReal = isReal
    /\ trades[Len(trades)].timestamp = now

\* The last order is the one the last iteration placed.
orderedByLastExec ==
    /\ orders # <<>>
    /\ orders[Len(orders)].strategy = lastExec.strategy
    /\ orders[Len(orders)].timestamp = now

\* C11: in either mode, a proposal that passed both validations with a size
\* of 1 or more, from a strategy not routed to real execution (a non-champion
\* in champion mode, a strategy without positive allocation in ensemble mode),
\* is in the ledger as a simulated trade after its iteration.
C11_UnroutedProposalLoggedAsPaper ==
    (/\ lastExec.called
     /\ lastExec.accepted
     /\ lastExec.riskSize >= ONE_DOLLAR
     /\ ~lastExec.selected)
        => loggedByLastExec(FALSE)

\* C12: placeOrder is called only for a proposal that passed both
\* validations, with a size of 1 or more, from the strategy selected to trade
\* real capital; a proposal a validation rejected leaves neither an order nor
\* a ledger trade.
C12_OrdersOnlyForSelected ==
    /\ lastExec.called =>
          /\ orderedByLastExec <=> lastExec.order # Null
          /\ orderedByLastExec =>
                /\ lastExec.validated
                /\ lastExec.accepted
                /\ lastRisk.called /\ lastRisk.result.valid
                /\ lastExec.selected
                /\ orders[Len(orders)].size >= ONE_DOLLAR
                /\ IF useEnsemble
                   THEN isEligible(trades, lastExec.strategy, now)
                        \/ (eligibleNames(trades, now) = {}
                            /\ lastExec.strategy = <<"momentum_pure">>)
                   ELSE lastExec.strategy = champion
          /\ ~lastExec.accepted =>
                /\ ~orderedByLastExec
                /\ Len(trades) = lastExec.before
    /\ \A i \in 1..Len(orders) : orders[i].size >= ONE_DOLLAR

\* In ensemble mode the only eligible strategy, which is not the champion,
\* had its order placed, the first order of the process.
C12_Witness ==
    /\ useEnsemble
    /\ lastExec.called
    /\ lastExec.strategy = <<"whale_copy">>
    /\ champion = <<"baseline">>
    /\ isEligible(trades, <<"whale_copy">>, now)
    /\ orderedByLastExec
    /\ Len(orders) = 1

\* C13: a failed placeOrder leaves no trade record for that order, and every
\* trade with isReal = true is the trade of an order that was filled.
C13_RealTradeOnlyForFilledOrder ==
    /\ (lastExec.called /\ lastExec.order = <<"failed">>) => Len(trades) = lastExec.before
    /\ \A i \in 1..Len(trades) :
          trades[i].isReal =>
              \E j \in 1..Len(orders) :
                  /\ orders[j].outcome = "filled"
                  /\ orders[j].strategy = trades[i].strategy
                  /\ orders[j].market = trades[i].market
                  /\ orders[j].action = trades[i].action
                  /\ orders[j].timestamp = trades[i].timestamp

\* C14: a cycle in which the analysis of a strategy threw (the baseline's
\* included) still runs compareAndPromote, and only the throwing strategy is
\* without trade.
C14_ThrowingAnalysisIsHold ==
    /\ (pc = "idle" /\ threw # {}) => lastCompare.done
    /\ lastExec.called => lastExec.strategy \notin threw

----------------------------------------------------------------------------
(* Properties of the allocator (SpecAlloc) *)

\* The strategies of the statistics that pass the eligibility filter: at
\* least 3 closed trades, a win rate of 30% or more, a total PnL of -10 or more.
eligibleStats ==
    {n \in DOMAIN stats :
        /\ stats[n].closedTrades >= 3
        /\ stats[n].wins * 10 >= 3 * stats[n].closedTrades
        /\ stats[n].totalPnl >= -1000}

\* The sum of the returned weights.
allocatedTotal == SumOver(allocations, DOMAIN allocations)

\* C15: for a non-empty eligible set (a single strategy included) every
\* returned weight is 0 or within [0.10, 0.50], and the weights sum to 1
\* within the tolerance 0.01.
C15_WeightsWithinBounds ==
    (allocations # NoStats /\ eligibleStats # {}) =>
        /\ \A n \in DOMAIN allocations :
              allocations[n] = 0 \/ (allocations[n] >= 1000 /\ allocations[n] <= 5000)
        /\ allocatedTotal >= 10000 - 100
        /\ allocatedTotal <= 10000 + 100

\* C16: without eligible strategy the allocation is momentum_pure at 1.0, and
\* whatever the statistics some returned weight is above 0.
C16_NeverZeroAllocates ==
    allocations # NoStats =>
        /\ eligibleStats = {} =>
              (DOMAIN allocations = {<<"momentum_pure">>}
               /\ allocations[<<"momentum_pure">>] = 10000)
        /\ \E n \in DOMAIN allocations : allocations[n] > 0

----------------------------------------------------------------------------
(* Properties of the trade ids (SpecIds) *)

\* String a sorts before string b (a < b in JavaScript), on digit sequences.
RECURSIVE sortsBefore(_, _)
sortsBefore(a, b) ==
    IF a = <<>> THEN b # <<>>
    ELSE IF b = <<>> THEN FALSE
    ELSE IF Head(a) # Head(b) THEN Head(a) < Head(b)
    ELSE sortsBefore(Tail(a), Tail(b))

\* C18: whatever the clock readings of the logTrade calls, two trades of the
\* ledger have different ids, and the id of the earlier one sorts first.
C18_IdsUniqueAndOrdered ==
    \A i, j \in 1..Len(trades) :
        i < j => (trades[i].id # trades[j].id /\ sortsBefore(trades[i].id, trades[j].id))

----------------------------------------------------------------------------
(* Properties of the files (SpecCron) *)

\* The processes that are running a cycle.
running == {p \in DOMAIN procs : procs[p].pc # "off"}

\* No trade whose save completed is missing from the ledger file.
noTradeLost ==
    ledgerFile.complete =>
        \A k \in ledgerFile.saved :
            \E i \in 1..Len(ledgerFile.trades) :
                <<ledgerFile.trades[i].id, ledgerFile.trades[i].strategy,
                  ledgerFile.trades[i].market, ledgerFile.trades[i].action>> = k

\* C19: a cycle invoked while another one is running is skipped, so that at
\* most one process is ever inside a cycle, and no trade one cycle saved is
\* overwritten by another.
C19_OverlappingCycleSkipped ==
    /\ Cardinality(running) <= 1
    /\ noTradeLost

\* C20: each file holds a complete snapshot at every point, a crash in the
\* middle of a save included, and no process has loaded a partial one.
C20_SnapshotsReplacedAtomically ==
    /\ ledgerFile.complete
    /\ arenaFile.complete
    /\ \A p \in DOMAIN procs : ~procs[p].sawPartial

----------------------------------------------------------------------------
(* Properties of the ledger (SpecLedger) *)

\* What makes a trade the trade it was logged as.
logged(t) == <<t.strategy, t.isReal, t.market, t.action, t.entryPrice, t.size, t.timestamp>>

\* What C10 asks of a step.
C10_Step ==
    /\ Len(trades') >= Len(trades)
    /\ \A i \in 1..Len(trades) :
          /\ logged(trades'[i]) = logged(trades[i])
          /\ trades[i].status = "closed" =>
                /\ trades'[i].status = "closed"
                /\ trades'[i].exitPrice = trades[i].exitPrice
                /\ trades'[i].pnl = trades[i].pnl
    /\ \A i \in 1..Len(trades') :
          /\ trades'[i].status \in {"open", "closed"}
          /\ (trades'[i].pnl = Null) <=> (trades'[i].status = "open")
          /\ (trades'[i].exitPrice = Null) <=> (trades'[i].status = "open")

\* C10: every step keeps the trades it found, in their order, and only adds
\* trades at the end; a trade goes from open to closed and never back; its pnl
\* is null exactly while it is open; a closed trade keeps its status, its
\* exitPrice and its pnl.
C10_LedgerAppendOnly == [][C10_Step]_vars

\* A trade was marked to market and then closed, a later one is still open.
C10_Witness ==
    \E i, j \in 1..Len(trades) :
        /\ i < j
        /\ trades[i].status = "closed"
        /\ trades[i].currentMtmPnL # Null
        /\ trades[i].pnl # trades[i].currentMtmPnL
        /\ trades[j].status = "open"
        /\ trades[j].market = trades[i].market

----------------------------------------------------------------------------
(* Properties of the loaders (SpecLoad) *)

\* A file that holds a well-formed document of its component.
holdsDocument(file, properties) ==
    file.kind = "json" /\ properties \subseteq DOMAIN file.value

\* C21: a component constructed over a snapshot file that is missing,
\* unreadable or does not hold a well-formed state document starts from its
\* default state (no trades; champion baseline, no counters, no history; mode
\* ensemble), and no later logTrade or compareAndPromote of the process fails.
C21_BadSnapshotStartsFromDefault ==
    procs.pc # "off" =>
        /\ ~holdsDocument(procs.found.ledger, {"trades"})
              => procs.loaded.data = EmptyData
        /\ ~holdsDocument(procs.found.arena, {"champion", "challengerWins", "promotionHistory"})
              => procs.loaded.state = DefaultArenaState
        /\ ~holdsDocument(procs.found.ensemble, {"mode", "allocations"})
              => procs.loaded.ensemble = DefaultEnsembleState
        /\ procs.pc # "failed"

----------------------------------------------------------------------------
(* Properties of the routing (SpecRoute) *)

\* The market findMarketForStrategy gives a strategy of the registry.
routedMarket(name) ==
    findMarketForStrategy(targetMarkets[name], Null, RouteActiveMarkets, DefaultMarket)

\* C22: a strategy that declares targetMarkets trades on the first active
\* market whose slug contains one of its patterns, whatever the case; when no
\* pattern matches an active market it holds and logs no trade in the cycle;
\* a strategy without targetMarkets trades on the default market.
C22_RoutedToFirstMatchingMarket ==
    \A name \in RouteStrategySet :
        /\ results # NoResults /\ results[name].action # "HOLD"
              => results[name].marketSlug = routedMarket(name)
        /\ \A i \in 1..Len(trades) :
              trades[i].strategy = name => <<trades[i].market>> = routedMarket(name)

----------------------------------------------------------------------------
(* Properties of the processing order (SpecOrder) *)

\* What the claim compares of a logged trade.
loggedAs(t) == <<t.strategy, t.market, t.action, t.size, t.isReal>>

\* The trades a trade loop added to the ledger `before`.
loggedSince(ts, before) == {loggedAs(ts[i]) : i \in (Len(before) + 1)..Len(ts)}

\* The arena state compareAndPromote leaves on a ledger.
arenaStateAfter(ts, champ, cw, history, clock) ==
    LET r == compareAndPromote(ts, champ, cw, history, clock)
    IN <<r.champion, r.challengerWins, r.promotionHistory>>

\* C23: at the end of a cycle, the trades it logged (strategy, market, action,
\* size, real or simulated) and the arena state it left are those any other
\* processing order of the registered strategies gives on the same ledger,
\* with the same proposals.
C23_OutcomeIndependentOfOrder ==
    (pc = "idle" /\ lastCompare.done) =>
        LET before == SubSeq(trades, 1, seeded)
        IN \A o \in Orders :
            LET other == tradeLoop(before, o, results, lastCompare.champion, useEnsemble,
                                   marketCache, now)
            IN /\ loggedSince(other, before) = loggedSince(trades, before)
               /\ arenaStateAfter(other, lastCompare.champion, lastCompare.challengerWins,
                                  lastCompare.promotionHistory, now)
                  = <<champion, challengerWins, promotionHistory>>

----------------------------------------------------------------------------
(* Properties of the comparison in Numbers (SpecMtm) *)

\* The performances of a comparison with every pnl replaced by closedPnL.
closedOnly(performances) ==
    [i \in 1..Len(performances) |->
        <<performances[i][1],
          [performances[i][2] EXCEPT !.pnl = performances[i][2].closedPnL]>>]

\* C24: in a comparison (getPerformanceWindow without currentPrices) every
\* open trade of the window contributes exactly 0 to its strategy's pnl and
\* openPnL while it counts in trades, and the winner of the comparison is the
\* one the recorded PnL of the window's closed trades alone gives.
C24_OpenTradesContributeZero ==
    lastCompare.done =>
        /\ \A i \in 1..Len(lastCompare.window) :
              lastCompare.window[i].status = "open"
                  => calculateMtmPnLNumber(lastCompare.window[i], Null) = Zero
        /\ \A i \in 1..Len(lastCompare.performances) :
              LET e == lastCompare.performances[i]
              IN /\ e[2].openPnL = Zero
                 /\ e[2].pnl = e[2].closedPnL
                 /\ e[2].trades = Len(SelectSeq(lastCompare.window,
                                       LAMBDA t : stratKey(t.strategy) = e[1]))
        /\ lastCompare.winner
              = bestChallengerNumber(closedOnly(lastCompare.performances), lastCompare.champion)

----------------------------------------------------------------------------
(* Properties of the strategy keys (SpecNorm) *)

\* Strategy ids of one to three segments.
NormSegments == {"creative", "whale_copy", "baseline"}
NormIds == UNION {[1..n -> NormSegments] : n \in 1..3}

\* The currentPrices arguments of getPerformanceWindow.
NormPriceArgs == {Null, <<50>>, <<75>>}

\* The ledger indices of the trades logged under the id x or creative:x.
tradesOfEitherId(ts, x) ==
    {n \in 1..Len(ts) : ts[n].strategy = x \/ ts[n].strategy = <<"creative">> \o x}

\* The total of calculateMtmPnL over the trades of an index set.
RECURSIVE totalPnl(_, _, _)
totalPnl(ts, currentPrices, indices) ==
    IF indices = {} THEN 0
    ELSE LET n == CHOOSE m \in indices : TRUE
         IN calculateMtmPnL(ts[n], currentPrices) + totalPnl(ts, currentPrices, indices \ {n})

\* The entries of a performance window count and total the trades of both ids
\* of each key, and every trade is under the key of its unprefixed id.
aggregatesBothIds(ts, performances, currentPrices) ==
    /\ \A i, j \in 1..Len(performances) : performances[i][1] = performances[j][1] => i = j
    /\ \A n \in 1..Len(ts) : \E i \in 1..Len(performances) :
          /\ performances[i][1] \in {<<"baseline">>, <<"whale_copy">>}
          /\ n \in tradesOfEitherId(ts, performances[i][1])
    /\ \A i \in 1..Len(performances) :
          /\ performances[i][2].trades = Cardinality(tradesOfEitherId(ts, performances[i][1]))
          /\ performances[i][2].pnl
                = totalPnl(ts, currentPrices, tradesOfEitherId(ts, performances[i][1]))

\* The same of a performance window in Numbers; the total is the sum in ledger
\* order.
aggregatesBothIdsNumber(ts, performances, pnls) ==
    /\ \A i, j \in 1..Len(performances) : performances[i][1] = performances[j][1] => i = j
    /\ \A i \in 1..Len(performances) :
          /\ performances[i][2].trades = Cardinality(tradesOfEitherId(ts, performances[i][1]))
          /\ performances[i][2].pnl
                = sumNumber(pnls, tradesOfEitherId(ts, performances[i][1]), Len(ts))

\* C25: normalising a strategy id twice gives what normalising it once gives,
\* for every id; and getPerformanceWindow puts the trades logged under
\* creative:x and under x into the one entry of key x, whose trades and pnl are
\* the count and the total over the trades of both ids.
C25_NormalizationAggregates ==
    /\ \A s \in NormIds : stratKey(stratKey(s)) = stratKey(s)
    /\ \A n \in 1..Len(trades) :
          stratKey(stratKey(trades[n].strategy)) = stratKey(trades[n].strategy)
    /\ \A currentPrices \in NormPriceArgs :
          aggregatesBothIds(trades,
              getPerformanceWindow(trades, COMPARISON_WINDOW_HOURS, currentPrices, now),
              currentPrices)
    /\ \E pnls \in {mtmNumbers(trades, Null)} :
          aggregatesBothIdsNumber(trades,
              perfEntriesNumber(trades, pnls, COMPARISON_WINDOW_HOURS, now), pnls)

\* Two trades of whale_copy, one logged under each id and one of them closed
\* with a pnl other than 0, are in the ledger.
C25_BothIdsLogged ==
    /\ \E n, m \in 1..Len(trades) :
          /\ trades[n].strategy = <<"whale_copy">>
          /\ trades[m].strategy = <<"creative", "whale_copy">>
          /\ trades[m].status = "closed"
          /\ PnlOrZero(trades[m]) # 0
    /\ Len(getPerformanceWindow(trades, COMPARISON_WINDOW_HOURS, Null, now)) = 1

----------------------------------------------------------------------------
(* Properties of the allocator's statistics (SpecNorm) *)

\* The keys of the stats object of getStrategyStats: the trade.strategy
\* strings of the trades inside the lookback window.
statKeys(ts, clock) ==
    {ts[i].strategy : i \in {n \in 1..Len(ts) : ts[n].timestamp >= clock - LOOKBACK_HOURS * 60}}

\* The allocator's statistics of a strategy are those of the entry the
\* ledger's performance window has for it.
sameAsLedger(ts, name, entry, clock) ==
    /\ Len(statTrades(ts, name, clock)) = entry.trades
    /\ winsOf(ts, name, clock) = entry.wins
    /\ SumPnl(closedOf(ts, name, clock)) = entry.closedPnL

\* C26: the allocator's statistics have one strategy per canonical id: trades
\* logged under creative:x and under x are counted together, so that the
\* statistics' keys, trade counts, wins and total PnL (and with them the
\* eligibility) are those of the ledger's performance window over the same
\* lookback.
C26_AllocatorAggregatesIds ==
    LET performances == getPerformanceWindow(trades, LOOKBACK_HOURS, Null, now)
    IN /\ statKeys(trades, now) = {performances[i][1] : i \in 1..Len(performances)}
       /\ \A i \in 1..Len(performances) :
             sameAsLedger(trades, performances[i][1], performances[i][2], now)

----------------------------------------------------------------------------
(* Properties of the performance window (SpecWindow) *)

\* The window lengths checked, in hours.
WindowHours == {1, COMPARISON_WINDOW_HOURS}

\* The ledger indices of the trades of a key with timestamp >= now - h hours.
tradesSince(ts, k, hours, clock) ==
    {n \in 1..Len(ts) : /\ stratKey(ts[n].strategy) = k
                        /\ clock - ts[n].timestamp <= hours * 60}

\* The entries are those of the keys with a trade in the window, each with
\* the count and the PnL total of the key's trades in the window.
countsWindowOnly(ts, performances, hours, currentPrices, clock) ==
    /\ \A i, j \in 1..Len(performances) : performances[i][1] = performances[j][1] => i = j
    /\ {performances[i][1] : i \in 1..Len(performances)}
          = {k \in WindowStrategies : tradesSince(ts, k, hours, clock) # {}}
    /\ \A i \in 1..Len(performances) :
          /\ performances[i][2].trades
                = Cardinality(tradesSince(ts, performances[i][1], hours, clock))
          /\ performances[i][2].pnl
                = totalPnl(ts, currentPrices, tradesSince(ts, performances[i][1], hours, clock))

\* C27: getPerformanceWindow(h) aggregates exactly the trades whose timestamp
\* is at least now - h hours: each strategy's trades is the number of its
\* trades in the window and its pnl the sum of their PnL; an older trade
\* counts in neither, whatever its pnl, and a strategy with older trades only
\* has no entry.
C27_WindowFiltering ==
    \A hours \in WindowHours, currentPrices \in NormPriceArgs :
        countsWindowOnly(trades, getPerformanceWindow(trades, hours, currentPrices, now),
                         hours, currentPrices, now)

\* A strategy has a trade on the edge of the 48 hour window and a closed trade
\* with a PnL other than 0 behind it.
C27_TradeBehindWindow ==
    \E n, m \in 1..Len(trades) :
        /\ trades[n].strategy = trades[m].strategy
        /\ trades[n].timestamp < now - COMPARISON_WINDOW_HOURS * 60
        /\ trades[n].status = "closed"
        /\ PnlOrZero(trades[n]) # 0
        /\ trades[m].timestamp = now - COMPARISON_WINDOW_HOURS * 60

----------------------------------------------------------------------------
(* Properties of the mark-to-market PnL (SpecMark) *)

\* size / entryPrice * currentPrices[side] - size, in cents and in Numbers.
mtmFormula(t, up) == (t.size * sidePrice(t.action, up)) \div t.entryPrice - t.size
mtmFormulaNumber(t, up) == pnlNumber(t.size, t.entryPrice, sidePrice(t.action, up))

\* C28: for an open trade calculateMtmPnL returns size / entryPrice times the
\* current price of the side the trade bought, minus size; for a closed trade
\* it returns the recorded pnl, whatever prices are passed.
C28_MtmFormula ==
    \A n \in 1..Len(trades), up \in MarkUpPrices :
        IF trades[n].status = "open"
        THEN /\ calculateMtmPnL(trades[n], <<up>>) = mtmFormula(trades[n], up)
             /\ calculateMtmPnLNumber(trades[n], <<up>>) = mtmFormulaNumber(trades[n], up)
        ELSE /\ calculateMtmPnL(trades[n], <<up>>) = trades[n].pnl[1]
             /\ calculateMtmPnLNumber(trades[n], <<up>>) = recordedPnlNumber(trades[n])

----------------------------------------------------------------------------
(* Properties of the open exposure (SpecRisk) *)

\* C29: in every state the arena's cycles, the market closes and the
\* take-profit sweeps reach, the sizes of the open trades of each market sum
\* to at most MAX_EXPOSURE_PER_MARKET times the portfolio value, the base
\* balance plus the sizes of all open trades.
C29_ExposureWithinCap ==
    \A m \in Markets :
        getMarketExposure(trades, m) * 100 <= MAX_EXPOSURE_PER_MARKET * getPortfolioValue(trades)

----------------------------------------------------------------------------
(* Properties of the champion (SpecRegistry) *)

\* C30: the champion of the arena state is always one of the strategies
\* loadStrategies registered, which analyse and can trade in each cycle; a
\* name that only the ledger's trades carry is never promoted.
C30_ChampionRegistered ==
    /\ champion \in StrategySet
    /\ \A i \in 1..Len(promotionHistory) : promotionHistory[i].newChampion \in StrategySet
====
